---- MODULE Spec2Model ----
(***************************************************************************)
(* SOCIOTYPER: triplet validation, actor catalog, fuzzy matcher and the    *)
(* extraction pipelines, modelled from src/sociotyper.                     *)
(*                                                                         *)
(* A Python str is a sequence of one-character strings; a dict is a        *)
(* function whose DOMAIN is its key set; Optional[x] is <<>> (None) or     *)
(* <<x>>.                                                                  *)
(***************************************************************************)
EXTENDS Integers, Sequences, FiniteSets, TLC

None == <<>>
Some(x) == <<x>>

----------------------------------------------------------------------------
(* Strings: str.lower, str.strip, str.split                                *)

UpperAlpha ==
    << "A","B","C","D","E","F","G","H","I","J","K","L","M",
       "N","O","P","Q","R","S","T","U","V","W","X","Y","Z" >>

LowerAlpha ==
    << "a","b","c","d","e","f","g","h","i","j","k","l","m",
       "n","o","p","q","r","s","t","u","v","w","x","y","z" >>

Whitespace == {" ", "\t"}

LowerChar(c) ==
    IF \E i \in DOMAIN UpperAlpha : UpperAlpha[i] = c
    THEN LowerAlpha[CHOOSE i \in DOMAIN UpperAlpha : UpperAlpha[i] = c]
    ELSE c

Lower(s) == [i \in 1..Len(s) |-> LowerChar(s[i])]

RECURSIVE LStrip(_)
LStrip(s) ==
    IF s = <<>> THEN s
    ELSE IF Head(s) \in Whitespace THEN LStrip(Tail(s)) ELSE s

RECURSIVE RStrip(_)
RStrip(s) ==
    IF s = <<>> THEN s
    ELSE IF s[Len(s)] \in Whitespace THEN RStrip(SubSeq(s, 1, Len(s) - 1)) ELSE s

Strip(s) == RStrip(LStrip(s))

Rep(c, n) == [i \in 1..n |-> c]

(* code-point order of the characters that occur in tokens *)
CodeOrder == <<" ">> \o UpperAlpha \o LowerAlpha

Ord(c) == CHOOSE i \in DOMAIN CodeOrder : CodeOrder[i] = c

RECURSIVE StrLess(_, _)
StrLess(a, b) ==
    IF b = <<>> THEN FALSE
    ELSE IF a = <<>> THEN TRUE
    ELSE IF Head(a) = Head(b) THEN StrLess(Tail(a), Tail(b))
    ELSE Ord(Head(a)) < Ord(Head(b))

RECURSIVE SplitAcc(_, _, _)
SplitAcc(s, cur, acc) ==
    IF s = <<>> THEN (IF cur = <<>> THEN acc ELSE Append(acc, cur))
    ELSE IF Head(s) \in Whitespace
         THEN SplitAcc(Tail(s), <<>>, IF cur = <<>> THEN acc ELSE Append(acc, cur))
         ELSE SplitAcc(Tail(s), Append(cur, Head(s)), acc)

Split(s) == SplitAcc(s, <<>>, <<>>)

RECURSIVE InsertSorted(_, _)
InsertSorted(tok, toks) ==
    IF toks = <<>> THEN <<tok>>
    ELSE IF StrLess(Head(toks), tok)
         THEN <<Head(toks)>> \o InsertSorted(tok, Tail(toks))
         ELSE <<tok>> \o toks

RECURSIVE SortTokens(_)
SortTokens(toks) ==
    IF toks = <<>> THEN <<>>
    ELSE InsertSorted(Head(toks), SortTokens(Tail(toks)))

RECURSIVE Join(_)
Join(toks) ==
    IF toks = <<>> THEN <<>>
    ELSE IF Len(toks) = 1 THEN Head(toks)
    ELSE Head(toks) \o <<" ">> \o Join(Tail(toks))

----------------------------------------------------------------------------
(* utils/config.py                                                         *)

GENERIC_COUNTERROLES ==
    { <<"p","e","o","p","l","e">>,
      <<"p","a","r","t","n","e","r","s">>,
      <<"c","o","m","m","u","n","i","t","y">>,
      <<"s","t","a","k","e","h","o","l","d","e","r","s">>,
      <<"m","e","m","b","e","r","s">>,
      <<"p","a","r","t","i","c","i","p","a","n","t","s">>,
      <<"o","r","g","a","n","i","z","a","t","i","o","n","s">>,
      <<"i","n","s","t","i","t","u","t","i","o","n","s">>,
      <<"e","n","t","i","t","i","e","s">>,
      <<"o","t","h","e","r","s">>,
      <<"t","h","e","m">>,
      <<"t","h","e","y">>,
      <<"i","t">>,
      <<"w","e">>,
      <<"u","s">> }

VAGUE_PRACTICES ==
    { <<"h","a","s">>,
      <<"i","s">>,
      <<"a","r","e">>,
      <<"w","a","s">>,
      <<"w","e","r","e">>,
      <<"b","e">>,
      <<"b","e","e","n">>,
      <<"d","i","s","c","u","s","s","e","s">>,
      <<"m","e","n","t","i","o","n","s">>,
      <<"f","o","c","u","s","e","s"," ","o","n">>,
      <<"r","e","f","e","r","s"," ","t","o">> }

CANONICAL_VERBS ==
    { <<"f","u","n","d">>,
      <<"f","i","n","a","n","c","e">>,
      <<"g","r","a","n","t">>,
      <<"i","n","v","e","s","t">>,
      <<"s","u","p","p","o","r","t">>,
      <<"s","p","o","n","s","o","r">>,
      <<"a","w","a","r","d">>,
      <<"p","a","r","t","n","e","r">>,
      <<"c","o","l","l","a","b","o","r","a","t","e">>,
      <<"w","o","r","k">>,
      <<"t","e","a","m">>,
      <<"a","l","l","y">>,
      <<"j","o","i","n">>,
      <<"c","r","e","a","t","e">>,
      <<"l","a","u","n","c","h">>,
      <<"d","e","v","e","l","o","p">>,
      <<"e","s","t","a","b","l","i","s","h">>,
      <<"b","u","i","l","d">>,
      <<"i","n","i","t","i","a","t","e">>,
      <<"s","e","t"," ","u","p">>,
      <<"s","t","a","r","t">>,
      <<"f","o","u","n","d">>,
      <<"o","p","e","n">>,
      <<"i","n","t","r","o","d","u","c","e">>,
      <<"p","r","o","v","i","d","e">>,
      <<"o","f","f","e","r">>,
      <<"d","e","l","i","v","e","r">>,
      <<"t","r","a","i","n">>,
      <<"e","d","u","c","a","t","e">>,
      <<"e","n","a","b","l","e">>,
      <<"a","c","c","e","l","e","r","a","t","e">>,
      <<"i","n","c","u","b","a","t","e">>,
      <<"s","c","a","l","e">>,
      <<"f","a","c","i","l","i","t","a","t","e">>,
      <<"c","o","n","n","e","c","t">>,
      <<"s","e","l","e","c","t">>,
      <<"m","e","n","t","o","r">>,
      <<"c","o","a","c","h">>,
      <<"c","o","o","r","d","i","n","a","t","e">>,
      <<"m","a","n","a","g","e">>,
      <<"o","p","e","r","a","t","e">>,
      <<"o","r","g","a","n","i","z","e">>,
      <<"i","m","p","l","e","m","e","n","t">>,
      <<"r","u","n">>,
      <<"m","o","b","i","l","i","z","e">>,
      <<"c","a","m","p","a","i","g","n">>,
      <<"a","d","v","o","c","a","t","e">>,
      <<"h","o","s","t">>,
      <<"i","n","n","o","v","a","t","e">>,
      <<"r","e","s","e","a","r","c","h">>,
      <<"p","i","l","o","t">>,
      <<"t","e","s","t">> }

DEFAULT_FUZZY_MATCH_THRESHOLD == 60

----------------------------------------------------------------------------
(* dict helpers                                                            *)

Get(d, k, default) == IF k \in DOMAIN d THEN d[k] ELSE default

Put(d, k, v) == [x \in (DOMAIN d) \cup {k} |-> IF x = k THEN v ELSE d[x]]

InList(x, list) == \E i \in DOMAIN list : list[i] = x

(* list.remove(x): drops the first occurrence *)
ListRemove(list, x) ==
    LET i == CHOOSE j \in DOMAIN list :
                 list[j] = x /\ \A k \in 1..(j - 1) : list[k] # x
    IN  SubSeq(list, 1, i - 1) \o SubSeq(list, i + 1, Len(list))

----------------------------------------------------------------------------
(* rapidfuzz: fuzz.token_sort_ratio and process.extractOne, as called by   *)
(* FuzzyMatcher.match.  A score is the rational num/den in 0..100.         *)

LCS(a, b) ==
    LET f[i \in 0..Len(a), j \in 0..Len(b)] ==
            IF i = 0 \/ j = 0 THEN 0
            ELSE IF a[i] = b[j] THEN f[i - 1, j - 1] + 1
            ELSE IF f[i - 1, j] >= f[i, j - 1] THEN f[i - 1, j] ELSE f[i, j - 1]
    IN  f[Len(a), Len(b)]

token_sort_ratio(s1, s2) ==
    LET a == Join(SortTokens(Split(s1)))
        b == Join(SortTokens(Split(s2)))
        n == Len(a) + Len(b)
    IN  IF n = 0 THEN [num |-> 100, den |-> 1]
        ELSE [num |-> 200 * LCS(a, b), den |-> n]

ScoreGE(sc, cutoff) == sc.num >= cutoff * sc.den

ScoreGT(x, y) == x.num * y.den > y.num * x.den

(* mutant: a score equal to the cutoff is refused *)
extractOneStrict(query, choices, score_cutoff) ==
    LET sc == [i \in DOMAIN choices |-> token_sort_ratio(query, choices[i])]
        ok == {i \in DOMAIN choices : sc[i].num > score_cutoff * sc[i].den}
    IN  IF ok = {} THEN None
        ELSE LET best == CHOOSE i \in ok :
                             /\ \A j \in ok : ~ScoreGT(sc[j], sc[i])
                             /\ \A j \in ok : j < i => ScoreGT(sc[i], sc[j])
             IN  Some(choices[best])

(* the first choice, in list order, whose score is maximal and >= cutoff *)
extractOne(query, choices, score_cutoff) ==
    LET sc == [i \in DOMAIN choices |-> token_sort_ratio(query, choices[i])]
        ok == {i \in DOMAIN choices : ScoreGE(sc[i], score_cutoff)}
    IN  IF ok = {} THEN None
        ELSE LET best == CHOOSE i \in ok :
                             /\ \A j \in ok : ~ScoreGT(sc[j], sc[i])
                             /\ \A j \in ok : j < i => ScoreGT(sc[i], sc[j])
             IN  Some(choices[best])

----------------------------------------------------------------------------
(* validation/fuzzy_matcher.py                                             *)

(* {actor.lower(): actor for actor in actors}: the last actor wins a key *)
ActorLowerMap(actors) ==
    [k \in {Lower(actors[i]) : i \in DOMAIN actors} |->
        actors[CHOOSE i \in DOMAIN actors :
                   /\ Lower(actors[i]) = k
                   /\ \A j \in DOMAIN actors : Lower(actors[j]) = k => j <= i]]

FuzzyMatcher(actors, threshold) ==
    [actors |-> actors,
     threshold |-> threshold,
     actor_lower_map |-> ActorLowerMap(actors)]

(* mutant: the exact-match lookup is skipped *)
matchFuzzyOnly(self, name, threshold) ==
    IF name = <<>> \/ Len(name) < 2 THEN None
    ELSE LET th == IF threshold # None THEN threshold[1] ELSE self.threshold
         IN  extractOne(name, self.actors, th)

(* FuzzyMatcher.match(name, threshold): None or Some(actor) *)
match(self, name, threshold) ==
    IF name = <<>> \/ Len(name) < 2 THEN None
    ELSE LET th == IF threshold # None THEN threshold[1] ELSE self.threshold
             name_lower == Strip(Lower(name))
         IN  IF name_lower \in DOMAIN self.actor_lower_map
             THEN Some(self.actor_lower_map[name_lower])
             ELSE extractOne(name, self.actors, th)

----------------------------------------------------------------------------
(* actors/catalog.py: _actors_by_category is an insertion-ordered dict,    *)
(* modelled as a sequence of [category, actors] entries.                   *)

RECURSIVE Flatten(_)
Flatten(abc) ==
    IF abc = <<>> THEN <<>>
    ELSE Head(abc).actors \o Flatten(Tail(abc))

HasCategory(abc, category) == \E i \in DOMAIN abc : abc[i].category = category

CategoryIndex(abc, category) == CHOOSE i \in DOMAIN abc : abc[i].category = category

(* ground truth: the actor is in some category list *)
InCatalog(abc, actor) == \E i \in DOMAIN abc : InList(actor, abc[i].actors)

(* the dict the actor_to_category property builds: an actor listed in
   several categories keeps the last one *)
ActorToCategory(abc) ==
    [a \in UNION {{abc[i].actors[j] : j \in DOMAIN abc[i].actors} : i \in DOMAIN abc}
        |-> abc[CHOOSE i \in DOMAIN abc :
                    /\ InList(a, abc[i].actors)
                    /\ \A k \in DOMAIN abc : InList(a, abc[k].actors) => k <= i].category]

(* "query in actor": query is a contiguous part of s *)
IsSubstring(query, s) ==
    \E i \in 0..(Len(s) - Len(query)) : SubSeq(s, i + 1, i + Len(query)) = query

(* [actor for actor in actors if query.lower() in actor.lower()] *)
RECURSIVE SearchIn(_, _)
SearchIn(actors, query) ==
    IF actors = <<>> THEN <<>>
    ELSE IF IsSubstring(Lower(query), Lower(Head(actors)))
         THEN <<Head(actors)>> \o SearchIn(Tail(actors), query)
         ELSE SearchIn(Tail(actors), query)

CatalogAdd(abc, actor, category) ==
    LET withCat == IF HasCategory(abc, category) THEN abc
                   ELSE Append(abc, [category |-> category, actors |-> <<>>])
        i == CategoryIndex(withCat, category)
    IN  IF InList(actor, withCat[i].actors) THEN withCat
        ELSE [withCat EXCEPT ![i].actors = Append(@, actor)]

CatalogRemove(abc, actor) ==
    LET i == CHOOSE j \in DOMAIN abc :
                 /\ InList(actor, abc[j].actors)
                 /\ \A k \in 1..(j - 1) : ~InList(actor, abc[k].actors)
    IN  [abc EXCEPT ![i].actors = ListRemove(@, actor)]

----------------------------------------------------------------------------
(* validation/schemas.py                                                   *)

ExtractedTriplet(d) ==
    [role |-> Get(d, "role", <<>>),
     practice |-> Get(d, "practice", <<>>),
     counterrole |-> Get(d, "counterrole", <<>>),
     context |-> Get(d, "context", <<>>),
     chunk_id |-> Get(d, "chunk_id", None),
     practice_original |-> Get(d, "practice_original", None),
     practice_score |-> Get(d, "practice_score", None),
     model_confidence |-> Get(d, "model_confidence", None),
     ner |-> Get(d, "ner", <<>>)]

ValidationResult(is_valid, reason, triplet) ==
    [is_valid |-> is_valid, reason |-> reason, triplet |-> triplet]

Rejected(reason) == ValidationResult(FALSE, reason, None)

----------------------------------------------------------------------------
(* validation/validator.py: TripletValidator.validate.                     *)
(* self is the validator's settings, m the value of its matcher property.  *)
(* Returns the ValidationResult, the candidate dict as the call leaves it, *)
(* and whether the matcher property was read.                              *)

Outcome(res, d, used) == [result |-> res, triplet |-> d, used_matcher |-> used]

(* mutant: the presence check forgets practice *)
MissingRequiredNoPractice(role_raw, counterrole_raw, practice) ==
    role_raw = <<>> \/ counterrole_raw = <<>>

(* "if not role_raw or not counterrole_raw or not practice", on the raw values *)
MissingRequired(role_raw, counterrole_raw, practice) ==
    role_raw = <<>> \/ counterrole_raw = <<>> \/ practice = <<>>

(* mutant: the counterrole checks run before the role check *)
LengthReasonCounterroleFirst(role_raw, counterrole_raw) ==
    IF Len(counterrole_raw) < 3 THEN "Counterrole too short"
    ELSE IF Len(counterrole_raw) > 100 THEN "Counterrole too long"
    ELSE IF Len(role_raw) < 2 THEN "Role too short"
    ELSE "ok"

(* mutant: the counterrole bounds are exclusive *)
LengthReasonExclusive(role_raw, counterrole_raw) ==
    IF Len(role_raw) < 2 THEN "Role too short"
    ELSE IF Len(counterrole_raw) <= 3 THEN "Counterrole too short"
    ELSE IF Len(counterrole_raw) >= 100 THEN "Counterrole too long"
    ELSE "ok"

(* the three length checks, on the stripped values, in source order *)
LengthReason(role_raw, counterrole_raw) ==
    IF Len(role_raw) < 2 THEN "Role too short"
    ELSE IF Len(counterrole_raw) < 3 THEN "Counterrole too short"
    ELSE IF Len(counterrole_raw) > 100 THEN "Counterrole too long"
    ELSE "ok"

(* mutant: the generic test is case-sensitive *)
IsGenericCounterroleNoLower(self, counterrole_raw) ==
    self.filter_generic /\ counterrole_raw \in GENERIC_COUNTERROLES

IsGenericCounterrole(self, counterrole_raw) ==
    self.filter_generic /\ Lower(counterrole_raw) \in GENERIC_COUNTERROLES

IsVaguePractice(practice) == Lower(practice) \in VAGUE_PRACTICES

(* mutant: a matched role is not rewritten to the catalog name *)
ResolveRoleKeepRaw(self, m, role_raw) ==
    IF self.require_actor_match
    THEN LET matched_role == match(m, role_raw, Some(self.fuzzy_threshold))
         IN  IF matched_role = None \/ matched_role[1] = <<>> THEN None
             ELSE Some(role_raw)
    ELSE Some(role_raw)

(* rule 6: None when the role is rejected, else Some(role to store) *)
ResolveRole(self, m, role_raw) ==
    IF self.require_actor_match
    THEN LET matched_role == match(m, role_raw, Some(self.fuzzy_threshold))
         IN  IF matched_role = None \/ matched_role[1] = <<>> THEN None
             ELSE matched_role
    ELSE Some(role_raw)

validate(self, m, triplet) ==
    LET role_raw0 == Get(triplet, "role", <<>>)
        counterrole_raw0 == Get(triplet, "counterrole", <<>>)
        practice0 == Get(triplet, "practice", <<>>)
        role_raw == Strip(role_raw0)
        counterrole_raw == Strip(counterrole_raw0)
        practice == Strip(practice0)
        resolved == ResolveRole(self, m, role_raw)
        d == Put(Put(Put(triplet, "role", resolved[1]),
                     "counterrole", counterrole_raw),
                 "practice", practice)
    IN
    IF MissingRequired(role_raw0, counterrole_raw0, practice0)
    THEN Outcome(Rejected("Missing required fields"), triplet, FALSE)
    ELSE IF LengthReason(role_raw, counterrole_raw) # "ok"
    THEN Outcome(Rejected(LengthReason(role_raw, counterrole_raw)), triplet, FALSE)
    ELSE IF IsGenericCounterrole(self, counterrole_raw)
    THEN Outcome(Rejected("Generic counterrole"), triplet, FALSE)
    ELSE IF IsVaguePractice(practice)
    THEN Outcome(Rejected("Vague practice verb"), triplet, FALSE)
    ELSE IF resolved = None
    THEN Outcome(Rejected("Role not in actor catalog"), triplet, TRUE)
    ELSE Outcome(ValidationResult(TRUE, "valid", Some(ExtractedTriplet(d))),
                 d, self.require_actor_match)

(* mutant: accepted triplets are collected newest first *)
BatchStepReversed(before, o) ==
    [valid_triplets |->
        IF o.result.is_valid /\ o.result.triplet # None
        THEN <<o.result.triplet[1]>> \o before.valid_triplets
        ELSE before.valid_triplets,
     all_results |-> Append(before.all_results, o.result),
     triplets |-> Append(before.triplets, o.triplet),
     used_matcher |-> before.used_matcher \/ o.used_matcher]

(* one iteration of the loop of validate_batch: o is what validate returned
   for the next triplet, before the lists built so far *)
BatchStep(before, o) ==
    [valid_triplets |->
        IF o.result.is_valid /\ o.result.triplet # None
        THEN Append(before.valid_triplets, o.result.triplet[1])
        ELSE before.valid_triplets,
     all_results |-> Append(before.all_results, o.result),
     triplets |-> Append(before.triplets, o.triplet),
     used_matcher |-> before.used_matcher \/ o.used_matcher]

(* TripletValidator.validate_batch(triplets): the loop up to and including
   the last triplet; also the dicts as the call leaves them and whether the
   matcher property was read.  Each call is made once and its value bound. *)
RECURSIVE validate_batch(_, _, _)
validate_batch(self, m, triplets) ==
    IF triplets = <<>>
    THEN [valid_triplets |-> <<>>, all_results |-> <<>>,
          triplets |-> <<>>, used_matcher |-> FALSE]
    ELSE CHOOSE r \in
             { BatchStep(before, o) :
                 before \in {validate_batch(self, m,
                                            SubSeq(triplets, 1, Len(triplets) - 1))},
                 o \in {validate(self, m, triplets[Len(triplets)])} } : TRUE

----------------------------------------------------------------------------
(* State                                                                   *)

VARIABLES
    actors_by_category, \* ActorCatalog._actors_by_category of the default catalog
    all_actors,         \* ActorCatalog._all_actors: None or Some(flat list)
    actor_to_category,  \* ActorCatalog._actor_to_category: None or Some(dict)
    validator,          \* the TripletValidator: its settings and _matcher
    shared,             \* validator._matcher.actors is the list object in all_actors
    op,                 \* the operation that ran last
    arg,                \* its argument
    arg_after,          \* its argument as the call left it
    ret,                \* its return value
    normalizers,        \* _default_normalizer and each TripleExtractor's _normalizer
    loads               \* how often a model was loaded and embeddings were computed

vars == <<actors_by_category, all_actors, actor_to_category, validator, shared, op, arg,
          arg_after, ret, normalizers, loads>>

(* the TripleExtractor instances of the process *)
MaxExtractors == 3

(* no normalizer constructed yet, nothing loaded yet *)
NoNormalizers == [default |-> None, extractor |-> [e \in 1..MaxExtractors |-> None]]

NoLoads == [embedder |-> 0, canonical_embeddings |-> 0]

----------------------------------------------------------------------------
(* Inputs                                                                  *)

MIT == <<"M","I","T">>
ETH == <<"E","T","H">>
KTH == <<"K","T","H">>
EITFood == <<"E","I","T"," ","F","o","o","d">>

DefaultCatalog ==
    << [category |-> "Universities", actors |-> <<MIT, ETH>>],
       [category |-> "EIT Organizations", actors |-> <<EITFood>>] >>

Thresholds == {DEFAULT_FUZZY_MATCH_THRESHOLD, 100}

Validators ==
    [fuzzy_threshold : Thresholds,
     require_actor_match : BOOLEAN,
     filter_generic : BOOLEAN,
     matcher : {None}]

Ctx == <<"c","t","x">>

(* role, practice and counterrole values; <<"-">> stands for "key absent" *)
NoKey == <<"-">>

RoleInputs ==
    { NoKey, <<>>, <<" "," ">>, <<" ","M"," ">>, MIT, <<"m","i","t"," ">>,
      <<"M","T","I">>, <<"F","o","o","d"," ","E","I","T">>, <<"X","Q","Z">> }

PracticeInputs ==
    { NoKey, <<>>, <<" ">>, <<"f","u","n","d">>, <<" ","F","u","n","d"," ">>,
      <<"I","S">>, <<"h","a","s"," ">> }

CounterroleInputs ==
    { NoKey, <<>>, <<" "," "," ">>, <<"a","b">>, <<"a","b","c">>, <<" ","a","b"," ">>,
      Rep("x", 99), Rep("x", 100), Rep("x", 101),
      <<" ">> \o Rep("x", 100) \o <<"\t">>,
      <<"p","e","o","p","l","e">>, <<" ","P","e","o","p","l","e">>,
      <<"u","s">>, <<"t","h","e","y">> }

MkCandidate(r, p, c) ==
    LET keys == {"context"} \cup (IF r = NoKey THEN {} ELSE {"role"})
                            \cup (IF p = NoKey THEN {} ELSE {"practice"})
                            \cup (IF c = NoKey THEN {} ELSE {"counterrole"})
    IN  [k \in keys |-> CASE k = "role" -> r
                          [] k = "practice" -> p
                          [] k = "counterrole" -> c
                          [] OTHER -> Ctx]

Candidates ==
    { MkCandidate(r, p, c) : r \in RoleInputs, p \in PracticeInputs, c \in CounterroleInputs }

----------------------------------------------------------------------------
(* Initial state: the default catalog is loaded, its caches are empty, the *)
(* validator is constructed without an actors list, no operation has run.  *)

InitWith(validators, args) ==
    /\ actors_by_category = DefaultCatalog
    /\ all_actors = None
    /\ actor_to_category = None
    /\ validator \in validators
    /\ shared = FALSE
    /\ op = "init"
    /\ arg \in args
    /\ arg_after = None
    /\ ret = None
    /\ normalizers = NoNormalizers
    /\ loads = NoLoads

----------------------------------------------------------------------------
(* Operations                                                              *)

(* ActorCatalog.all_actors as a read would return it *)
AllActorsView == IF all_actors = None THEN Flatten(actors_by_category) ELSE all_actors[1]

(* TripletValidator.matcher as a read would return it *)
MatcherView ==
    IF validator.matcher = None
    THEN FuzzyMatcher(AllActorsView, validator.fuzzy_threshold)
    ELSE validator.matcher[1]

(* TripletValidator.validate(triplet), with the lazy construction of the
   matcher (and of the catalog's flat list) it triggers when rule 6 runs *)
Validate(t) ==
    \E m \in {MatcherView} : \E o \in {validate(validator, m, t)} :
    LET built == o.used_matcher /\ validator.matcher = None
    IN  /\ op' = "validate"
        /\ arg' = t
        /\ arg_after' = o.triplet
        /\ ret' = o.result
        /\ validator' = IF built THEN [validator EXCEPT !.matcher = Some(m)]
                        ELSE validator
        /\ all_actors' = IF built THEN Some(AllActorsView) ELSE all_actors
        /\ shared' = IF built THEN TRUE ELSE shared
        /\ UNCHANGED <<actors_by_category, actor_to_category, normalizers, loads>>

----------------------------------------------------------------------------
(* validate as a function of one candidate: the candidate and the          *)
(* validator settings are drawn in the initial state, the call is applied  *)
(* to them once.                                                           *)

InitValidate == InitWith(Validators, Candidates)

ValidateArg == op = "init" /\ Validate(arg)

NextValidate == ValidateArg

SpecValidate == InitValidate /\ [][NextValidate]_vars

----------------------------------------------------------------------------
(* The default catalog mutated between validate calls.                     *)

MaxActors == 4

ActorUniverse == {ETH, KTH}

CategoryUniverse == {"Universities", "Startups"}

CatalogCandidates ==
    { MkCandidate(r, <<"f","u","n","d">>, <<"a","b","c">>) : r \in {ETH, KTH} }

(* ActorCatalog.add_actor(actor, category) *)
AddActor(actor, category) ==
    LET changed == ~(HasCategory(actors_by_category, category)
                     /\ InList(actor,
                               actors_by_category[CategoryIndex(actors_by_category, category)].actors))
    IN  /\ Len(Flatten(actors_by_category)) < MaxActors
        /\ actors_by_category' = CatalogAdd(actors_by_category, actor, category)
        /\ all_actors' = IF changed THEN None ELSE all_actors
        /\ actor_to_category' = IF changed THEN None ELSE actor_to_category
        /\ shared' = IF changed THEN FALSE ELSE shared
        /\ op' = "add_actor"
        /\ arg' = <<actor, category>>
        /\ arg_after' = None
        /\ ret' = None
        /\ UNCHANGED <<validator, normalizers, loads>>

(* mutant: remove_actor leaves the caches as they are *)
RemoveActorKeepCaches(actor) ==
    LET found == InCatalog(actors_by_category, actor)
    IN  /\ actors_by_category' = IF found THEN CatalogRemove(actors_by_category, actor)
                                 ELSE actors_by_category
        /\ op' = "remove_actor"
        /\ arg' = actor
        /\ arg_after' = None
        /\ ret' = found
        /\ UNCHANGED <<all_actors, actor_to_category, shared, validator, normalizers, loads>>

(* ActorCatalog.remove_actor(actor) *)
RemoveActor(actor) ==
    LET found == InCatalog(actors_by_category, actor)
    IN  /\ actors_by_category' = IF found THEN CatalogRemove(actors_by_category, actor)
                                 ELSE actors_by_category
        /\ all_actors' = IF found THEN None ELSE all_actors
        /\ actor_to_category' = IF found THEN None ELSE actor_to_category
        /\ shared' = IF found THEN FALSE ELSE shared
        /\ op' = "remove_actor"
        /\ arg' = actor
        /\ arg_after' = None
        /\ ret' = found
        /\ UNCHANGED <<validator, normalizers, loads>>

(* a read of ActorCatalog.all_actors (get_all_actors) *)
ReadAllActors ==
    /\ all_actors' = Some(AllActorsView)
    /\ op' = "all_actors"
    /\ arg' = None
    /\ arg_after' = None
    /\ ret' = AllActorsView
    /\ UNCHANGED <<actors_by_category, actor_to_category, validator, shared, normalizers, loads>>

(* ActorCatalog.actor_to_category as a read would return it *)
ActorToCategoryView ==
    IF actor_to_category = None THEN ActorToCategory(actors_by_category)
    ELSE actor_to_category[1]

(* ActorCatalog.get_category(actor): None or Some(category) *)
GetCategory(actor) ==
    /\ actor_to_category' = Some(ActorToCategoryView)
    /\ op' = "get_category"
    /\ arg' = actor
    /\ arg_after' = None
    /\ ret' = IF actor \in DOMAIN ActorToCategoryView
              THEN Some(ActorToCategoryView[actor]) ELSE None
    /\ UNCHANGED <<actors_by_category, all_actors, validator, shared, normalizers, loads>>

(* ActorCatalog.contains(actor) *)
Contains(actor) ==
    /\ actor_to_category' = Some(ActorToCategoryView)
    /\ op' = "contains"
    /\ arg' = actor
    /\ arg_after' = None
    /\ ret' = (actor \in DOMAIN ActorToCategoryView)
    /\ UNCHANGED <<actors_by_category, all_actors, validator, shared, normalizers, loads>>

SearchQueries == { <<"t","h">>, <<"M">>, <<>> }

(* ActorCatalog.search(query) *)
Search(query) ==
    /\ all_actors' = Some(AllActorsView)
    /\ op' = "search"
    /\ arg' = query
    /\ arg_after' = None
    /\ ret' = SearchIn(AllActorsView, query)
    /\ UNCHANGED <<actors_by_category, actor_to_category, validator, shared, normalizers, loads>>

InitCatalog ==
    InitWith({v \in Validators :
                 v.fuzzy_threshold = DEFAULT_FUZZY_MATCH_THRESHOLD /\ v.filter_generic},
             {None})

NextCatalog ==
    \/ \E a \in ActorUniverse, c \in CategoryUniverse : AddActor(a, c)
    \/ \E a \in ActorUniverse : RemoveActor(a)
    \/ ReadAllActors
    \/ \E a \in ActorUniverse : GetCategory(a)
    \/ \E a \in ActorUniverse : Contains(a)
    \/ \E q \in SearchQueries : Search(q)
    \/ \E t \in CatalogCandidates : Validate(t)

SpecCatalog == InitCatalog /\ [][NextCatalog]_vars

----------------------------------------------------------------------------
(* core/normalizer.py.  Scores are cosine similarities in hundredths.      *)

DEFAULT_SIMILARITY_THRESHOLD == 30

RECURSIVE SortedList(_)
SortedList(S) ==
    IF S = {} THEN <<>>
    ELSE LET m == CHOOSE x \in S : \A y \in S : x = y \/ StrLess(x, y)
         IN  <<m>> \o SortedList(S \ {m})

(* VerbNormalizer(canonical_verbs, threshold): an empty or absent set of
   verbs stands for CANONICAL_VERBS *)
VerbNormalizer(verbs, threshold) ==
    [canonical_verbs |-> SortedList(IF verbs = {} THEN CANONICAL_VERBS ELSE verbs),
     threshold |-> threshold]

(* get_normalizer(): the default VerbNormalizer() *)
DefaultNormalizer == VerbNormalizer({}, DEFAULT_SIMILARITY_THRESHOLD)

(* its canonical_verbs = sorted(list(CANONICAL_VERBS)) *)
canonical_verbs == DefaultNormalizer.canonical_verbs

Finances == <<"f","i","n","a","n","c","e","s">>
PartnersWith == <<"p","a","r","t","n","e","r","s"," ","w","i","t","h">>
Xylophone == <<"x","y","l","o","p","h","o","n","e">>

(* the embedding model on the phrases used here: a phrase is at 1.0 from
   itself, an inflected form close to its verb, anything else far *)
CosSim(phrase, verb) ==
    IF phrase = verb THEN 100
    ELSE IF phrase = Finances /\ verb = <<"f","i","n","a","n","c","e">> THEN 85
    ELSE IF phrase = Finances /\ verb = <<"f","u","n","d">> THEN 60
    ELSE IF phrase = PartnersWith /\ verb = <<"p","a","r","t","n","e","r">> THEN 80
    ELSE 10

(* torch.argmax: the first index of a maximal score *)
ArgMax(scores) ==
    LET values == {scores[i] : i \in DOMAIN scores}
    IN  CHOOSE i \in DOMAIN scores :
            \E mx \in {v \in values : \A w \in values : w <= v} :
                /\ scores[i] = mx
                /\ \A j \in 1..(i - 1) : scores[j] # mx

(* mutant: a score equal to the threshold is rejected *)
normalize_scores_strict(self, scores, threshold) ==
    LET th == IF threshold # None THEN threshold[1] ELSE self.threshold
        best_idx == ArgMax(scores)
    IN  IF scores[best_idx] <= th THEN <<None, scores[best_idx]>>
        ELSE <<Some(self.canonical_verbs[best_idx]), scores[best_idx]>>

(* VerbNormalizer.normalize once the similarities of the phrase to the
   canonical verbs, in list order, are computed *)
normalize_scores(self, scores, threshold) ==
    LET th == IF threshold # None THEN threshold[1] ELSE self.threshold
        best_idx == ArgMax(scores)
    IN  IF scores[best_idx] < th THEN <<None, scores[best_idx]>>
        ELSE <<Some(self.canonical_verbs[best_idx]), scores[best_idx]>>

(* VerbNormalizer.normalize(phrase, threshold) of the default normalizer:
   <<None or Some(verb), score>> *)
normalize(phrase, threshold) ==
    normalize_scores(DefaultNormalizer,
                     [i \in DOMAIN canonical_verbs |-> CosSim(phrase, canonical_verbs[i])],
                     Some(threshold))

----------------------------------------------------------------------------
(* core/extraction.py.  A chunk is given by what generation and parsing    *)
(* produce for it: an exception, or the parsed candidate dicts.            *)

RECURSIVE normalize_triplet_verbs(_)
normalize_triplet_verbs(triplets) ==
    IF triplets = <<>> THEN <<>>
    ELSE LET triplet == Head(triplets)
             practice == Get(triplet, "practice", <<>>)
             n == normalize(practice, DEFAULT_SIMILARITY_THRESHOLD)
             rest == normalize_triplet_verbs(Tail(triplets))
         IN  IF n[1] # None
             THEN <<Put(Put(Put(triplet, "practice", n[1][1]),
                            "practice_original", Some(practice)),
                        "practice_score", Some(n[2]))>> \o rest
             ELSE rest

(* doc.ents of the NER model on a context *)
DocEnts(context) ==
    << [text |-> MIT, label |-> "ORG"], [text |-> <<"x">>, label |-> "DATE"] >>

NerLabels == {"ORG", "INSTITUTION", "GPE", "PERSON"}

RECURSIVE FilterEnts(_)
FilterEnts(ents) ==
    IF ents = <<>> THEN <<>>
    ELSE IF Head(ents).label \in NerLabels
         THEN <<Head(ents)>> \o FilterEnts(Tail(ents))
         ELSE FilterEnts(Tail(ents))

enrich_with_ner(triplets) ==
    [i \in DOMAIN triplets |->
        LET context == Get(triplets[i], "context", <<>>)
        IN  IF context # <<>>
            THEN Put(triplets[i], "ner", FilterEnts(DocEnts(context)))
            ELSE triplets[i]]

(* TripleExtractor._extract_from_chunk, after generation and parsing *)
extract_from_chunk(self, chunk) ==
    LET parsed == chunk.parsed
        normalized == IF self.normalize_verbs THEN normalize_triplet_verbs(parsed)
                      ELSE parsed
    IN  IF self.enrich_with_ner THEN enrich_with_ner(normalized) ELSE normalized

(* mutant: the loop ends at the first chunk that raises *)
RECURSIVE extract_until_error(_, _)
extract_until_error(self, chunks) ==
    IF chunks = <<>> THEN <<>>
    ELSE IF Head(chunks).raises THEN <<>>
    ELSE extract_from_chunk(self, Head(chunks)) \o extract_until_error(self, Tail(chunks))

(* TripleExtractor.extract: a chunk that raises is skipped *)
RECURSIVE extract(_, _)
extract(self, chunks) ==
    IF chunks = <<>> THEN <<>>
    ELSE LET rest == extract(self, Tail(chunks))
         IN  IF Head(chunks).raises THEN rest
             ELSE extract_from_chunk(self, Head(chunks)) \o rest

(* mutant: every triplet is tagged with the index of the first chunk *)
RECURSIVE extract_streaming_first_tag(_, _, _)
extract_streaming_first_tag(self, chunks, i) ==
    IF i > Len(chunks) THEN <<>>
    ELSE LET rest == extract_streaming_first_tag(self, chunks, i + 1)
         IN  IF chunks[i].raises THEN rest
             ELSE LET chunk_triplets == extract_from_chunk(self, chunks[i])
                  IN  [k \in DOMAIN chunk_triplets |->
                          Put(chunk_triplets[k], "chunk_id", Some(1))] \o rest

(* TripleExtractor.extract_streaming: the sequence of yielded triplets *)
RECURSIVE extract_streaming_from(_, _, _)
extract_streaming_from(self, chunks, i) ==
    IF i > Len(chunks) THEN <<>>
    ELSE LET rest == extract_streaming_from(self, chunks, i + 1)
         IN  IF chunks[i].raises THEN rest
             ELSE LET chunk_triplets == extract_from_chunk(self, chunks[i])
                  IN  [k \in DOMAIN chunk_triplets |->
                          Put(chunk_triplets[k], "chunk_id", Some(i))] \o rest

(* mutant: the chunks are counted from the second one *)
extract_streaming_skip_first(self, chunks) == extract_streaming_from(self, chunks, 2)

extract_streaming(self, chunks) == extract_streaming_from(self, chunks, 1)

----------------------------------------------------------------------------
(* api/app.py                                                              *)

(* SociotyperAPI._extract_with_llm after generation and parsing: every
   parsed triple gets the chunk's confidence and goes through validate.
   Returns the accepted triplets and whether the matcher property was read *)
TriplesStep(o, rest) ==
    [validated |->
        IF o.result.is_valid /\ o.result.triplet # None
        THEN <<o.result.triplet[1]>> \o rest.validated
        ELSE rest.validated,
     used_matcher |-> o.used_matcher \/ rest.used_matcher]

RECURSIVE validate_triples(_, _, _, _)
validate_triples(self, m, triples, confidence) ==
    IF triples = <<>> THEN [validated |-> <<>>, used_matcher |-> FALSE]
    ELSE CHOOSE r \in
             { TriplesStep(o, rest) :
                 o \in {validate(self, m, Put(Head(triples), "model_confidence",
                                              Some(confidence)))},
                 rest \in {validate_triples(self, m, Tail(triples), confidence)} } : TRUE

(* "if max_triplets and len(all_triplets) >= max_triplets" *)
CeilingReached(max_triplets, all_triplets) ==
    /\ max_triplets # None
    /\ max_triplets[1] # 0
    /\ Len(all_triplets) >= max_triplets[1]

(* the inner loop: append triples until the ceiling is reached *)
RECURSIVE AppendUpTo(_, _, _)
AppendUpTo(max_triplets, all_triplets, triples) ==
    IF triples = <<>> \/ CeilingReached(max_triplets, all_triplets) THEN all_triplets
    ELSE AppendUpTo(max_triplets, Append(all_triplets, Head(triples)), Tail(triples))

(* a chunk of the loop of SociotyperAPI.extract_triplets whose processing
   returns v; generated records the chunks sent to generation, in order,
   with len(all_triplets) before each *)
ChunkStep(max_triplets, acc, i, v) ==
    [all_triplets |-> AppendUpTo(max_triplets, acc.all_triplets, v.validated),
     used_matcher |-> acc.used_matcher \/ v.used_matcher,
     generated |-> Append(acc.generated, [chunk |-> i, before |-> Len(acc.all_triplets)])]

(* a chunk whose processing raises: logged and skipped *)
ChunkFailed(acc, i) ==
    [acc EXCEPT !.generated = Append(@, [chunk |-> i, before |-> Len(acc.all_triplets)])]

(* the loop of SociotyperAPI.extract_triplets over chunks i.., given the
   triplets accumulated so far *)
RECURSIVE extract_triplets_from(_, _, _, _, _, _)
extract_triplets_from(self, m, chunks, max_triplets, i, acc) ==
    IF i > Len(chunks) \/ CeilingReached(max_triplets, acc.all_triplets) THEN acc
    ELSE IF chunks[i].raises
    THEN CHOOSE r \in
             { extract_triplets_from(self, m, chunks, max_triplets, i + 1, next) :
                 next \in {ChunkFailed(acc, i)} } : TRUE
    ELSE CHOOSE r \in
             { extract_triplets_from(self, m, chunks, max_triplets, i + 1, next) :
                 next \in { ChunkStep(max_triplets, acc, i, v) :
                              v \in {validate_triples(self, m, chunks[i].parsed,
                                                      chunks[i].confidence)} } } : TRUE

(* the response of SociotyperAPI.extract_triplets *)
FormatResponse(chunks, all_triplets) ==
    [total_chunks |-> Len(chunks),
     total_triplets |-> Len(all_triplets),
     triplets |-> [idx \in DOMAIN all_triplets |->
                      [id |-> idx,
                       text |-> all_triplets[idx].context,
                       extracted |-> [role |-> all_triplets[idx].role,
                                      practice |-> all_triplets[idx].practice,
                                      counterrole |-> all_triplets[idx].counterrole],
                       confidence |-> all_triplets[idx].model_confidence]],
     status |-> "success"]

----------------------------------------------------------------------------
(* Extraction runs: the per-chunk generation results and the settings are  *)
(* drawn in the initial state, one run is applied to them.                 *)

MaxChunks == 2

MaxPerChunk == 1

MaxCeiling == 2

Fund == <<"f","u","n","d">>

ExtractionCandidates ==
    { MkCandidate(MIT, Fund, <<"a","b","c">>),
      MkCandidate(<<"X","Q","Z">>, PartnersWith, <<"a","b","c">>),
      MkCandidate(MIT, Xylophone, <<"a","b","c">>) }

SeqsUpTo(S, n) == UNION { [1..k -> S] : k \in 0..n }

ChunkOutcomes ==
    { [raises |-> TRUE, parsed |-> <<>>, confidence |-> 75] }
    \cup { [raises |-> FALSE, parsed |-> ps, confidence |-> 75] :
             ps \in SeqsUpTo(ExtractionCandidates, MaxPerChunk) }

ExtractorArgs ==
    [kind : {"extractor"},
     normalize_verbs : BOOLEAN,
     enrich_with_ner : BOOLEAN,
     chunks : SeqsUpTo(ChunkOutcomes, MaxChunks)]

ApiArgs ==
    [kind : {"api"},
     max_triplets : {None} \cup {Some(n) : n \in 0..MaxCeiling},
     chunks : SeqsUpTo(ChunkOutcomes, MaxChunks) \ {<<>>}]

(* TripletValidator(): the validator SociotyperAPI constructs *)
DefaultValidator ==
    [fuzzy_threshold |-> DEFAULT_FUZZY_MATCH_THRESHOLD,
     require_actor_match |-> TRUE,
     filter_generic |-> TRUE,
     matcher |-> None]

InitExtract == InitWith({DefaultValidator}, ExtractorArgs \cup ApiArgs)

(* TripleExtractor.extract(text) *)
Extract ==
    /\ op = "init"
    /\ arg.kind = "extractor"
    /\ op' = "extract"
    /\ ret' = extract(arg, arg.chunks)
    /\ arg_after' = None
    /\ UNCHANGED <<arg, actors_by_category, actor_to_category, all_actors, validator, shared, normalizers, loads>>

(* TripleExtractor.extract_streaming(text), consumed to the end *)
ExtractStreaming ==
    /\ op = "init"
    /\ arg.kind = "extractor"
    /\ op' = "extract_streaming"
    /\ ret' = extract_streaming(arg, arg.chunks)
    /\ arg_after' = None
    /\ UNCHANGED <<arg, actors_by_category, actor_to_category, all_actors, validator, shared, normalizers, loads>>

(* SociotyperAPI.extract_triplets(text, max_triplets=...) *)
ExtractTriplets ==
    /\ op = "init"
    /\ arg.kind = "api"
    /\ \E m \in {MatcherView} :
       \E acc \in {[all_triplets |-> <<>>, used_matcher |-> FALSE, generated |-> <<>>]} :
       \E run \in {extract_triplets_from(validator, m, arg.chunks,
                                          arg.max_triplets, 1, acc)} :
       LET built == run.used_matcher /\ validator.matcher = None
       IN  /\ op' = "extract_triplets"
           /\ ret' = FormatResponse(arg.chunks, run.all_triplets)
           /\ arg_after' = run.generated
           /\ validator' = IF built THEN [validator EXCEPT !.matcher = Some(m)]
                           ELSE validator
           /\ all_actors' = IF built THEN Some(AllActorsView) ELSE all_actors
           /\ shared' = IF built THEN TRUE ELSE shared
    /\ UNCHANGED <<arg, actors_by_category, actor_to_category, normalizers, loads>>

NextExtract == Extract \/ ExtractStreaming \/ ExtractTriplets

SpecExtract == InitExtract /\ [][NextExtract]_vars

----------------------------------------------------------------------------
(* validate_batch on a list of candidates drawn in the initial state.      *)

MaxBatch == 3

BatchCandidates ==
    { MkCandidate(<<"m","i","t"," ">>, Fund, <<"a","b","c">>),
      MkCandidate(ETH, Fund, <<"a","b","c">>),
      MkCandidate(<<"X","Q","Z">>, Fund, <<"a","b","c">>),
      MkCandidate(MIT, NoKey, <<"a","b","c">>) }

InitBatch ==
    InitWith({v \in Validators :
                 v.fuzzy_threshold = DEFAULT_FUZZY_MATCH_THRESHOLD /\ v.filter_generic},
             SeqsUpTo(BatchCandidates, MaxBatch))

(* TripletValidator.validate_batch(triplets) *)
ValidateBatch ==
    /\ op = "init"
    /\ \E m \in {MatcherView} : \E b \in {validate_batch(validator, m, arg)} :
       LET built == b.used_matcher /\ validator.matcher = None
       IN  /\ op' = "validate_batch"
           /\ ret' = <<b.valid_triplets, b.all_results>>
           /\ arg_after' = b.triplets
           /\ validator' = IF built THEN [validator EXCEPT !.matcher = Some(m)]
                           ELSE validator
           /\ all_actors' = IF built THEN Some(AllActorsView) ELSE all_actors
           /\ shared' = IF built THEN TRUE ELSE shared
    /\ UNCHANGED <<arg, actors_by_category, actor_to_category, normalizers, loads>>

NextBatch == ValidateBatch

SpecBatch == InitBatch /\ [][NextBatch]_vars

----------------------------------------------------------------------------
(* FuzzyMatcher.match on a matcher built from an explicit list: the list,  *)
(* the name and the threshold argument are drawn in the initial state.     *)

MaxList == 3

MatchNames ==
    { MIT, <<"m","i","t">>, <<" ","M","I","T">>, <<"M">>,
      <<"A"," ","B">>, <<"B"," ","A">>, <<"X","Q","Z">> }

MatchQueries == MatchNames \cup { <<"M","T","I">> }

MatchArgs ==
    [name : MatchQueries, threshold : {None, Some(0), Some(100)}]

InitMatch ==
    /\ actors_by_category = DefaultCatalog
    /\ all_actors = None
    /\ actor_to_category = None
    /\ \E actors \in SeqsUpTo(MatchNames, MaxList) :
           validator = [DefaultValidator EXCEPT
                           !.matcher = Some(FuzzyMatcher(actors, DEFAULT_FUZZY_MATCH_THRESHOLD))]
    /\ shared = FALSE
    /\ op = "init"
    /\ arg \in MatchArgs
    /\ arg_after = None
    /\ ret = None
    /\ normalizers = NoNormalizers
    /\ loads = NoLoads

(* FuzzyMatcher.match(name, threshold) on the validator's matcher *)
Match ==
    /\ op = "init"
    /\ op' = "match"
    /\ ret' = match(validator.matcher[1], arg.name, arg.threshold)
    /\ arg_after' = None
    /\ UNCHANGED <<arg, actors_by_category, actor_to_category, all_actors, validator, shared, normalizers, loads>>

NextMatch == Match

SpecMatch == InitMatch /\ [][NextMatch]_vars

----------------------------------------------------------------------------
(* VerbNormalizer.normalize on a normalizer built from an explicit verb    *)
(* set.  The embedding model is any assignment of similarities to the      *)
(* verbs: the verbs, the similarities and the threshold argument are drawn *)
(* in the initial state.                                                   *)

MaxVerbs == 3

VerbPool ==
    << <<"f","u","n","d">>, <<"f","i","n","a","n","c","e">>,
       <<"p","a","r","t","n","e","r">>, <<"i","n","v","e","s","t">>,
       <<"a","d","v","i","s","e">> >>

(* cosine similarities in hundredths *)
ScoreValues == {-100, 10, 29, 30, 50}

NormalizeArgs ==
    UNION { [canonical_verbs : {vs},
             scores : [1..Cardinality(vs) -> ScoreValues],
             threshold : {None, Some(0), Some(50)}] :
            vs \in SUBSET {VerbPool[i] : i \in 1..MaxVerbs} \ {{}} }

InitNormalize == InitWith({DefaultValidator}, NormalizeArgs)

Normalize ==
    /\ op = "init"
    /\ op' = "normalize"
    /\ ret' = normalize_scores(VerbNormalizer(arg.canonical_verbs,
                                              DEFAULT_SIMILARITY_THRESHOLD),
                               arg.scores, arg.threshold)
    /\ arg_after' = None
    /\ UNCHANGED <<arg, actors_by_category, actor_to_category, all_actors, validator, shared, normalizers, loads>>

NextNormalize == Normalize

SpecNormalize == InitNormalize /\ [][NextNormalize]_vars

----------------------------------------------------------------------------
(* core/chunker.py.  A TextChunker is [chunk_size, method, overlap]; the   *)
(* result of chunk is the list of chunks, or raised when the call raises.  *)

Returned(chunks) == [raised |-> FALSE, chunks |-> chunks]

Raised == [raised |-> TRUE, chunks |-> <<>>]

Min(a, b) == IF a <= b THEN a ELSE b

(* "if chunk.strip(): chunks.append(chunk)" over the candidate chunks *)
RECURSIVE KeepNonBlank(_)
KeepNonBlank(chunks) ==
    IF chunks = <<>> THEN <<>>
    ELSE IF Strip(Head(chunks)) # <<>>
         THEN <<Head(chunks)>> \o KeepNonBlank(Tail(chunks))
         ELSE KeepNonBlank(Tail(chunks))

(* the values of range(0, n, step) for step > 0, as 0-based offsets *)
RangeOffsets(n, step) == [k \in 1..((n + step - 1) \div step) |-> (k - 1) * step]

(* mutant: each window takes one word more than chunk_size *)
chunk_by_words_wide(self, text) ==
    LET words == Split(text)
        step == self.chunk_size - self.overlap
    IN  IF step = 0 THEN Raised
        ELSE IF step < 0 THEN Returned(<<>>)
        ELSE LET offs == RangeOffsets(Len(words), step)
             IN  Returned(KeepNonBlank(
                     [k \in DOMAIN offs |->
                         Join(SubSeq(words, offs[k] + 1,
                                     Min(offs[k] + self.chunk_size + 1, Len(words))))]))

(* TextChunker._chunk_by_words: range() raises on a step of 0 and is empty
   on a negative step *)
chunk_by_words(self, text) ==
    LET words == Split(text)
        step == self.chunk_size - self.overlap
    IN  IF step = 0 THEN Raised
        ELSE IF step < 0 THEN Returned(<<>>)
        ELSE LET offs == RangeOffsets(Len(words), step)
             IN  Returned(KeepNonBlank(
                     [k \in DOMAIN offs |->
                         Join(SubSeq(words, offs[k] + 1,
                                     Min(offs[k] + self.chunk_size, Len(words))))]))

(* TextChunker._chunk_by_chars *)
chunk_by_chars(self, text) ==
    LET step == self.chunk_size - self.overlap
    IN  IF step = 0 THEN Raised
        ELSE IF step < 0 THEN Returned(<<>>)
        ELSE LET offs == RangeOffsets(Len(text), step)
             IN  Returned(KeepNonBlank(
                     [k \in DOMAIN offs |->
                         SubSeq(text, offs[k] + 1,
                                Min(offs[k] + self.chunk_size, Len(text)))]))

SentenceEnd == {".", "!", "?"}

(* the positions where (?<=[.!?])\s+ matches: a whitespace run that starts
   right after a sentence end *)
SplitPoints(s) == {i \in 2..Len(s) : s[i] \in Whitespace /\ s[i - 1] \in SentenceEnd}

(* the last position of the whitespace run that starts at i *)
RunEnd(s, i) ==
    CHOOSE j \in i..Len(s) :
        /\ \A k \in i..j : s[k] \in Whitespace
        /\ j = Len(s) \/ s[j + 1] \notin Whitespace

(* re.split(r'(?<=[.!?])\s+', text), from position from on *)
RECURSIVE SplitSentencesFrom(_, _)
SplitSentencesFrom(s, from) ==
    LET later == {i \in SplitPoints(s) : i >= from}
    IN  IF later = {} THEN <<SubSeq(s, from, Len(s))>>
        ELSE LET i == CHOOSE x \in later : \A y \in later : x <= y
             IN  <<SubSeq(s, from, i - 1)>> \o SplitSentencesFrom(s, RunEnd(s, i) + 1)

SplitSentences(text) == SplitSentencesFrom(text, 1)

(* list[-n:] for n > 0 *)
LastN(list, n) == SubSeq(list, IF n >= Len(list) THEN 1 ELSE Len(list) - n + 1, Len(list))

(* one iteration of the loop of _chunk_by_sentences *)
SentenceStep(self, st, sentence) ==
    LET sentence_words == Len(Split(sentence))
        flush == /\ st.current_size + sentence_words > self.chunk_size
                 /\ st.current_chunk # <<>>
        overlap_text == Join(LastN(st.current_chunk, self.overlap))
        chunks == IF flush THEN Append(st.chunks, Join(st.current_chunk)) ELSE st.chunks
        current_chunk == IF ~flush THEN st.current_chunk
                         ELSE IF self.overlap > 0 THEN <<overlap_text>>
                         ELSE <<>>
        current_size == IF ~flush THEN st.current_size
                        ELSE IF self.overlap > 0 THEN Len(Split(overlap_text))
                        ELSE 0
    IN  [chunks |-> chunks,
         current_chunk |-> Append(current_chunk, sentence),
         current_size |-> current_size + sentence_words]

RECURSIVE SentenceLoop(_, _, _, _)
SentenceLoop(self, sentences, k, st) ==
    IF k > Len(sentences) THEN st
    ELSE CHOOSE r \in { SentenceLoop(self, sentences, k + 1, next) :
                          next \in {SentenceStep(self, st, sentences[k])} } : TRUE

(* TextChunker._chunk_by_sentences *)
chunk_by_sentences(self, text) ==
    CHOOSE r \in
        { Returned(IF st.current_chunk # <<>>
                   THEN Append(st.chunks, Join(st.current_chunk))
                   ELSE st.chunks) :
            st \in { SentenceLoop(self, sentences, 1,
                                  [chunks |-> <<>>, current_chunk |-> <<>>,
                                   current_size |-> 0]) :
                       sentences \in {SplitSentences(text)} } } : TRUE

(* TextChunker.chunk: an unknown method raises ValueError *)
chunk(self, text) ==
    IF self.method = "word" THEN chunk_by_words(self, text)
    ELSE IF self.method = "sentence" THEN chunk_by_sentences(self, text)
    ELSE IF self.method = "char" THEN chunk_by_chars(self, text)
    ELSE Raised

----------------------------------------------------------------------------
(* TextChunker.chunk on a text and a chunker drawn in the initial state:   *)
(* short texts over letters, a full stop and a blank, texts of single-     *)
(* spaced words, and texts of single-spaced sentences.                     *)

MaxTextLen == 4

MaxWords == 5

MaxSentences == 4

MaxChunkSize == 3

MaxOverlap == 3

FreeTexts == SeqsUpTo({"a", ".", " "}, MaxTextLen)

WordTexts == { Join(ws) : ws \in SeqsUpTo({<<"a">>, <<"b">>}, MaxWords) }

SentenceTexts ==
    { Join(ss) : ss \in SeqsUpTo({<<"a", ".">>, <<"a", " ", "b", ".">>}, MaxSentences) }

ChunkArgs ==
    [text : FreeTexts \cup WordTexts \cup SentenceTexts,
     chunk_size : 1..MaxChunkSize,
     method : {"word", "sentence", "char", "paragraph"},
     overlap : 0..MaxOverlap]

InitChunk == InitWith({DefaultValidator}, ChunkArgs)

(* TextChunker(chunk_size, method, overlap).chunk(text) *)
Chunk ==
    /\ op = "init"
    /\ op' = "chunk"
    /\ ret' = chunk(arg, arg.text)
    /\ arg_after' = None
    /\ UNCHANGED <<arg, actors_by_category, actor_to_category, all_actors, validator, shared, normalizers, loads>>

NextChunk == Chunk

SpecChunk == InitChunk /\ [][NextChunk]_vars

----------------------------------------------------------------------------
(* The parsers of generated text: TripleExtractor._parse_triplets and      *)
(* SociotyperAPI._parse_json_output.  A generated text is given by what    *)
(* the searches find in it: whether it has a span from its first "[" to    *)
(* its last "]", whether json.loads decodes that span and to which items,  *)
(* and the groups TRIPLE_PATTERN.findall captures.  An item is a JSON      *)
(* object with string values, a number, or a string.                       *)

ParseReturned(candidates) == [raised |-> FALSE, candidates |-> candidates]

ParseRaised == [raised |-> TRUE, candidates |-> <<>>]

RequiredKeys == <<"role", "practice", "counterrole">>

KeyChars(k) ==
    IF k = "role" THEN <<"r","o","l","e">>
    ELSE IF k = "practice" THEN <<"p","r","a","c","t","i","c","e">>
    ELSE <<"c","o","u","n","t","e","r","r","o","l","e">>

(* "k in item" raises TypeError on a number *)
InRaises(item) == item.kind = "number"

(* "k in item": key membership on an object, substring test on a string *)
KeyIn(k, item) ==
    IF item.kind = "object" THEN k \in DOMAIN item.value
    ELSE IsSubstring(KeyChars(k), item.value)

(* all(k in item for k in ["role", "practice", "counterrole"]) *)
HasAllKeys(item) == \A i \in DOMAIN RequiredKeys : KeyIn(RequiredKeys[i], item)

(* the body of the loop raises: TypeError from "in" on a number,
   AttributeError from item.get on a string that passed the test *)
ItemRaises(item) ==
    \/ InRaises(item)
    \/ item.kind = "string" /\ HasAllKeys(item)

(* the dict built from an item that carries the three keys *)
ItemTriplet(item) ==
    [k \in {"role", "practice", "counterrole", "context"} |->
        Strip(Get(item.value, k, <<>>))]

RECURSIVE ItemTriplets(_)
ItemTriplets(items) ==
    IF items = <<>> THEN <<>>
    ELSE IF HasAllKeys(Head(items))
         THEN <<ItemTriplet(Head(items))>> \o ItemTriplets(Tail(items))
         ELSE ItemTriplets(Tail(items))

(* the dicts built from the groups of the labeled-field pattern *)
BlockTriplets(blocks) ==
    [i \in DOMAIN blocks |->
        [k \in {"role", "practice", "counterrole", "context"} |-> Strip(blocks[i][k])]]

(* TripleExtractor._parse_triplets: only json.JSONDecodeError is caught *)
parse_triplets(text) ==
    IF text.span /\ text.decodes
    THEN IF \E i \in DOMAIN text.items : ItemRaises(text.items[i])
         THEN ParseRaised
         ELSE ParseReturned(ItemTriplets(text.items))
    ELSE ParseReturned(BlockTriplets(text.blocks))

(* SociotyperAPI._parse_json_output: the decoded list as it is, [] when
   there is no span or it does not decode *)
parse_json_output(text) ==
    IF text.span /\ text.decodes THEN ParseReturned(text.items)
    ELSE ParseReturned(<<>>)

MaxItems == 2

MaxBlocks == 1

ObjectItem(d) == [kind |-> "object", value |-> d]

ItemPool ==
    { ObjectItem(MkCandidate(<<" ","M","I","T">>, Fund, <<"a","b","c">>)),
      ObjectItem([role |-> MIT, practice |-> Fund, counterrole |-> <<"a","b","c">>]),
      ObjectItem([role |-> MIT, practice |-> Fund]),
      [kind |-> "number", value |-> <<"1">>],
      [kind |-> "string", value |-> <<"x">>] }

BlockPool ==
    { [role |-> MIT, practice |-> <<"f","u","n","d"," ">>,
       counterrole |-> <<"a","b","c">>, context |-> Ctx] }

GeneratedTexts ==
    { [span |-> FALSE, decodes |-> FALSE, items |-> <<>>, blocks |-> b] :
          b \in SeqsUpTo(BlockPool, MaxBlocks) }
    \cup { [span |-> TRUE, decodes |-> FALSE, items |-> <<>>, blocks |-> b] :
          b \in SeqsUpTo(BlockPool, MaxBlocks) }
    \cup { [span |-> TRUE, decodes |-> TRUE, items |-> it, blocks |-> b] :
          it \in SeqsUpTo(ItemPool, MaxItems), b \in SeqsUpTo(BlockPool, MaxBlocks) }

ParseArgs == [parser : {"extractor", "api"}, text : GeneratedTexts]

InitParse == InitWith({DefaultValidator}, ParseArgs)

ParseTriplets ==
    /\ op = "init"
    /\ arg.parser = "extractor"
    /\ op' = "parse"
    /\ ret' = parse_triplets(arg.text)
    /\ arg_after' = None
    /\ UNCHANGED <<arg, actors_by_category, actor_to_category, all_actors, validator, shared, normalizers, loads>>

ParseJsonOutput ==
    /\ op = "init"
    /\ arg.parser = "api"
    /\ op' = "parse"
    /\ ret' = parse_json_output(arg.text)
    /\ arg_after' = None
    /\ UNCHANGED <<arg, actors_by_category, actor_to_category, all_actors, validator, shared, normalizers, loads>>

NextParse == ParseTriplets \/ ParseJsonOutput

SpecParse == InitParse /\ [][NextParse]_vars

----------------------------------------------------------------------------
(* The construction of ExtractedTriplet at the end of validate, on         *)
(* candidates whose optional fields hold any JSON value.  Here a Python    *)
(* value carries its runtime type: <<type, value>>, None is <<"NoneType">>,*)
(* a float is counted in hundredths.  The model classes are pydantic       *)
(* BaseModels (validate_triplet calls model_dump, the pydantic 2 API), so  *)
(* each keyword argument is validated against the declared type of its     *)
(* field, and the constructor raises ValidationError when one is refused.  *)

PyNone == <<"NoneType">>
PyStr(s) == <<"str", s>>
PyInt(n) == <<"int", n>>
PyFloat(h) == <<"float", h>>
PyList(l) == <<"list", l>>
PyDict(d) == <<"dict", d>>

PyType(v) == v[1]

Refused == [ok |-> FALSE, value |-> PyNone]
Taken(v) == [ok |-> TRUE, value |-> v]

Digits == <<"0", "1", "2", "3", "4", "5", "6", "7", "8", "9">>

IsDigit(c) == \E i \in DOMAIN Digits : Digits[i] = c

DigitValue(c) == (CHOOSE i \in DOMAIN Digits : Digits[i] = c) - 1

(* a non-empty string of decimal digits *)
IsNumeral(s) == s # <<>> /\ \A i \in DOMAIN s : IsDigit(s[i])

RECURSIVE NumeralValue(_)
NumeralValue(s) ==
    IF s = <<>> THEN 0
    ELSE 10 * NumeralValue(SubSeq(s, 1, Len(s) - 1)) + DigitValue(s[Len(s)])

(* a field declared str: only a str is taken, None is refused *)
StrField(v) == IF PyType(v) = "str" THEN Taken(v) ELSE Refused

(* a field declared Optional[str] *)
OptionalStrField(v) ==
    IF PyType(v) = "NoneType" THEN Taken(PyNone) ELSE StrField(v)

(* a field declared Optional[int]: an int is taken, a float without
   fraction and a numeral string are converted, anything else is refused *)
OptionalIntField(v) ==
    IF PyType(v) = "NoneType" THEN Taken(PyNone)
    ELSE IF PyType(v) = "int" THEN Taken(v)
    ELSE IF PyType(v) = "float"
    THEN IF v[2] % 100 = 0 THEN Taken(PyInt(v[2] \div 100)) ELSE Refused
    ELSE IF PyType(v) = "str"
    THEN IF IsNumeral(v[2]) THEN Taken(PyInt(NumeralValue(v[2]))) ELSE Refused
    ELSE Refused

(* a field declared Optional[float]: a float is taken, an int and a
   numeral string are converted, anything else is refused *)
OptionalFloatField(v) ==
    IF PyType(v) = "NoneType" THEN Taken(PyNone)
    ELSE IF PyType(v) = "float" THEN Taken(v)
    ELSE IF PyType(v) = "int" THEN Taken(PyFloat(100 * v[2]))
    ELSE IF PyType(v) = "str"
    THEN IF IsNumeral(v[2]) THEN Taken(PyFloat(100 * NumeralValue(v[2]))) ELSE Refused
    ELSE Refused

(* NEREntity from a dict: text and label are required and declared str *)
NEREntityField(v) ==
    IF PyType(v) # "dict" THEN Refused
    ELSE IF ~({"text", "label"} \subseteq DOMAIN v[2]) THEN Refused
    ELSE IF ~StrField(v[2].text).ok \/ ~StrField(v[2].label).ok THEN Refused
    ELSE Taken(PyDict([text |-> v[2].text, label |-> v[2].label]))

(* a field declared List[NEREntity] *)
NerField(v) ==
    IF PyType(v) # "list" THEN Refused
    ELSE IF \E i \in DOMAIN v[2] : ~NEREntityField(v[2][i]).ok THEN Refused
    ELSE Taken(PyList([i \in DOMAIN v[2] |-> NEREntityField(v[2][i]).value]))

OptionalFields ==
    {"context", "chunk_id", "practice_original", "practice_score",
     "model_confidence", "ner"}

(* the keyword argument validate passes for a field: triplet.get(k) with
   the default written in the call *)
FieldArgument(optional, k) ==
    IF k \in DOMAIN optional THEN optional[k]
    ELSE IF k = "context" THEN PyStr(<<>>)
    ELSE IF k = "ner" THEN PyList(<<>>)
    ELSE PyNone

(* the validation of one keyword argument by the field it is passed to *)
FieldValue(k, v) ==
    IF k = "context" THEN StrField(v)
    ELSE IF k = "chunk_id" THEN OptionalIntField(v)
    ELSE IF k = "practice_original" THEN OptionalStrField(v)
    ELSE IF k = "ner" THEN NerField(v)
    ELSE OptionalFloatField(v)

(* mutant: chunk_id is not handed to the constructor *)
ExtractedTripletFieldsNoChunk(optional) ==
    LET fv == [k \in OptionalFields |->
                  IF k = "chunk_id" THEN Taken(PyNone)
                  ELSE FieldValue(k, FieldArgument(optional, k))]
    IN  [raised |-> \E k \in OptionalFields : ~fv[k].ok,
         fields |-> [k \in OptionalFields |-> fv[k].value]]

(* ExtractedTriplet(...) on the six optional arguments: raises when a field
   refuses its argument, else the field values of the model *)
ExtractedTripletFields(optional) ==
    LET fv == [k \in OptionalFields |-> FieldValue(k, FieldArgument(optional, k))]
    IN  [raised |-> \E k \in OptionalFields : ~fv[k].ok,
         fields |-> [k \in OptionalFields |-> fv[k].value]]

(* the outcome of a validate call: it raised, or it returned result *)
CallRaised == [raised |-> TRUE, result |-> None]
CallReturned(result) == [raised |-> FALSE, result |-> result]

(* validate on a candidate given as the dict of its role, practice and
   counterrole and the dict of its optional fields: o is the outcome of the
   rules on the first, c the construction on the second *)
validate_record(o, c) ==
    IF ~o.result.is_valid THEN CallReturned(o.result)
    ELSE IF c.raised THEN CallRaised
    ELSE CallReturned(
             ValidationResult(TRUE, "valid",
                 Some([k \in {"role", "practice", "counterrole"} \cup OptionalFields |->
                          IF k \in OptionalFields THEN c.fields[k]
                          ELSE PyStr(o.result.triplet[1][k])])))

XQZ == <<"X","Q","Z">>

RecordBases ==
    { [role |-> <<" ","M","I","T">>, practice |-> <<"f","u","n","d"," ">>,
       counterrole |-> <<" ","a","b","c">>],
      [role |-> <<"M","T","I">>, practice |-> Fund, counterrole |-> <<"a","b","c">>],
      [role |-> XQZ, practice |-> Fund, counterrole |-> <<"a","b","c">>],
      [role |-> MIT, practice |-> Fund] }

Entity == PyDict([text |-> PyStr(MIT), label |-> PyStr("ORG")])

OptionalValues(k) ==
    IF k = "context" THEN {PyStr(Ctx), PyStr(<<>>), PyNone}
    ELSE IF k = "chunk_id" THEN {PyNone, PyInt(1), PyFloat(200), PyStr(<<"3">>), PyStr(<<"x">>)}
    ELSE IF k = "practice_original" THEN {PyNone, PyStr(Finances)}
    ELSE IF k = "practice_score" THEN {PyNone, PyFloat(85), PyInt(1), PyStr(<<"x">>)}
    ELSE IF k = "model_confidence" THEN {PyNone, PyFloat(75)}
    ELSE {PyList(<<>>), PyList(<<Entity>>), PyNone, PyList(<<PyStr(MIT)>>)}

(* every dict over a subset of the optional keys; <<"absent">> marks a key
   that is left out *)
OptionalDicts ==
    { [k \in {x \in OptionalFields : f[x] # <<"absent">>} |-> f[k]] :
        f \in [context : OptionalValues("context") \cup {<<"absent">>},
               chunk_id : OptionalValues("chunk_id") \cup {<<"absent">>},
               practice_original : OptionalValues("practice_original") \cup {<<"absent">>},
               practice_score : OptionalValues("practice_score") \cup {<<"absent">>},
               model_confidence : OptionalValues("model_confidence") \cup {<<"absent">>},
               ner : OptionalValues("ner") \cup {<<"absent">>}] }

RecordArgs == [triplet : RecordBases, optional : OptionalDicts]

InitRecord == InitWith({DefaultValidator}, RecordArgs)

(* TripletValidator.validate(triplet) on such a candidate *)
ValidateRecord ==
    /\ op = "init"
    /\ \E m \in {MatcherView} :
       \E o \in {validate(validator, m, arg.triplet)} :
       \E c \in {ExtractedTripletFields(arg.optional)} :
       LET built == o.used_matcher /\ validator.matcher = None
       IN  /\ op' = "validate"
           /\ ret' = validate_record(o, c)
           /\ arg_after' = o.triplet
           /\ validator' = IF built THEN [validator EXCEPT !.matcher = Some(m)]
                           ELSE validator
           /\ all_actors' = IF built THEN Some(AllActorsView) ELSE all_actors
           /\ shared' = IF built THEN TRUE ELSE shared
    /\ UNCHANGED <<arg, actors_by_category, actor_to_category, normalizers, loads>>

NextRecord == ValidateRecord

SpecRecord == InitRecord /\ [][NextRecord]_vars

----------------------------------------------------------------------------
(* FuzzyMatcher.add_actor and remove_actor.  The matcher keeps the list it *)
(* was constructed with (self.actors = actors): when that list is the one  *)
(* cached in ActorCatalog._all_actors, a change to it is a change to the   *)
(* catalog's cache.                                                        *)

(* dict.pop(k, None) *)
Pop(d, k) == [x \in (DOMAIN d) \ {k} |-> d[x]]

FuzzyMatcher_remove_actor(self, actor) ==
    IF InList(actor, self.actors)
    THEN [self EXCEPT !.actors = ListRemove(@, actor),
                      !.actor_lower_map = Pop(@, Lower(actor))]
    ELSE self

FuzzyMatcher_add_actor(self, actor) ==
    IF ~InList(actor, self.actors)
    THEN [self EXCEPT !.actors = Append(@, actor),
                      !.actor_lower_map = Put(@, Lower(actor), actor)]
    ELSE self

MaxMatcherActors == 3

(* matcher.add_actor(actor) on the validator's matcher *)
MatcherAddActor(actor) ==
    /\ validator.matcher # None
    /\ Len(validator.matcher[1].actors) < MaxMatcherActors
    /\ \E m \in {FuzzyMatcher_add_actor(validator.matcher[1], actor)} :
           /\ validator' = [validator EXCEPT !.matcher = Some(m)]
           /\ all_actors' = IF shared THEN Some(m.actors) ELSE all_actors
    /\ op' = "matcher.add_actor"
    /\ arg' = actor
    /\ arg_after' = None
    /\ ret' = None
    /\ UNCHANGED <<actors_by_category, actor_to_category, shared, normalizers, loads>>

(* matcher.remove_actor(actor) on the validator's matcher *)
MatcherRemoveActor(actor) ==
    /\ validator.matcher # None
    /\ \E m \in {FuzzyMatcher_remove_actor(validator.matcher[1], actor)} :
           /\ validator' = [validator EXCEPT !.matcher = Some(m)]
           /\ all_actors' = IF shared THEN Some(m.actors) ELSE all_actors
    /\ op' = "matcher.remove_actor"
    /\ arg' = actor
    /\ arg_after' = None
    /\ ret' = None
    /\ UNCHANGED <<actors_by_category, actor_to_category, shared, normalizers, loads>>

----------------------------------------------------------------------------
(* A matcher built from an explicit list of distinct names, some of which  *)
(* differ only in letter case, then changed by add_actor and remove_actor. *)

MatcherNames == { MIT, <<"m","i","t">>, <<"M","i","t">>, ETH, <<"e","t","h">> }

DistinctLists(S, n) ==
    { l \in SeqsUpTo(S, n) : \A i \in DOMAIN l : \A j \in DOMAIN l : l[i] = l[j] => i = j }

InitMatcher ==
    /\ actors_by_category = DefaultCatalog
    /\ all_actors = None
    /\ actor_to_category = None
    /\ \E actors \in DistinctLists(MatcherNames, MaxMatcherActors) :
           validator = [DefaultValidator EXCEPT
                           !.matcher = Some(FuzzyMatcher(actors, DEFAULT_FUZZY_MATCH_THRESHOLD))]
    /\ shared = FALSE
    /\ op = "init"
    /\ arg = None
    /\ arg_after = None
    /\ ret = None
    /\ normalizers = NoNormalizers
    /\ loads = NoLoads

NextMatcher ==
    \/ \E a \in MatcherNames : MatcherAddActor(a)
    \/ \E a \in MatcherNames : MatcherRemoveActor(a)

SpecMatcher == InitMatcher /\ [][NextMatcher]_vars

----------------------------------------------------------------------------
(* The default catalog and the validator's lazily built matcher, which     *)
(* holds the catalog's all_actors list, both changed by add_actor and      *)
(* remove_actor.                                                           *)

NextShared ==
    \/ NextCatalog
    \/ \E a \in ActorUniverse : MatcherAddActor(a)
    \/ \E a \in ActorUniverse : MatcherRemoveActor(a)

SpecShared == InitCatalog /\ [][NextShared]_vars

----------------------------------------------------------------------------
(* The lazily loaded parts of a VerbNormalizer: the embedding model and    *)
(* the embeddings of the canonical verbs.  An instance is given by which   *)
(* of the two it holds; loads counts how often each was produced in the    *)
(* process.                                                                *)

(* VerbNormalizer(): _embedder and _canonical_embeddings are None *)
NewNormalizer == [embedder |-> FALSE, canonical_embeddings |-> FALSE]

(* the instance a property returns: the one held, or a new one *)
Instance(held) == IF held = None THEN NewNormalizer ELSE held[1]

(* the instance after normalize read its embedder and canonical_embeddings
   properties *)
AfterNormalize(n) == [embedder |-> TRUE, canonical_embeddings |-> TRUE]

(* what the properties loaded and computed during a normalize on n *)
LoadsOf(n, before) ==
    [embedder |-> before.embedder + (IF n.embedder THEN 0 ELSE 1),
     canonical_embeddings |->
         before.canonical_embeddings + (IF n.canonical_embeddings THEN 0 ELSE 1)]

NormalizePhrases == {Fund, Finances, PartnersWith, Xylophone}

(* normalize_verb(phrase): get_normalizer().normalize(phrase, threshold) *)
NormalizeVerb(phrase) ==
    /\ \E n \in {Instance(normalizers.default)} :
           /\ normalizers' = [normalizers EXCEPT !.default = Some(AfterNormalize(n))]
           /\ loads' = LoadsOf(n, loads)
    /\ op' = "normalize_verb"
    /\ arg' = phrase
    /\ arg_after' = None
    /\ ret' = normalize(phrase, DEFAULT_SIMILARITY_THRESHOLD)
    /\ UNCHANGED <<actors_by_category, all_actors, actor_to_category, validator, shared>>

(* TripleExtractor._normalize_triplet_verbs of extractor e on one triplet
   with this practice: self.normalizer.normalize(practice) *)
ExtractorNormalize(e, phrase) ==
    /\ \E n \in {Instance(normalizers.extractor[e])} :
           /\ normalizers' = [normalizers EXCEPT !.extractor[e] = Some(AfterNormalize(n))]
           /\ loads' = LoadsOf(n, loads)
    /\ op' = "normalize_triplet_verbs"
    /\ arg' = <<e, phrase>>
    /\ arg_after' = None
    /\ ret' = normalize(phrase, DEFAULT_SIMILARITY_THRESHOLD)
    /\ UNCHANGED <<actors_by_category, all_actors, actor_to_category, validator, shared>>

InitLoads == InitWith({DefaultValidator}, {None})

NextLoads ==
    \/ \E p \in NormalizePhrases : NormalizeVerb(p)
    \/ \E e \in 1..MaxExtractors : \E p \in NormalizePhrases : ExtractorNormalize(e, p)

SpecLoads == InitLoads /\ [][NextLoads]_vars

----------------------------------------------------------------------------
(* A validator constructed with an explicit actors list.                   *)

(* TripletValidator(actors, fuzzy_threshold, require_actor_match,
   filter_generic): "if actors:" is false for None and for the empty list *)
TripletValidator(actors, fuzzy_threshold, require_actor_match, filter_generic) ==
    [fuzzy_threshold |-> fuzzy_threshold,
     require_actor_match |-> require_actor_match,
     filter_generic |-> filter_generic,
     matcher |-> IF actors # None /\ actors[1] # <<>>
                 THEN Some(FuzzyMatcher(actors[1], fuzzy_threshold))
                 ELSE None]

ExplicitActors == {KTH, XQZ}

ExplicitCandidates ==
    { MkCandidate(r, p, <<"a","b","c">>) :
        r \in {MIT, KTH, <<"k","t","h"," ">>, XQZ, <<"Q","Q","Q","Q">>},
        p \in {Fund, <<"I","S">>} }

ExplicitArgs == [actors : SeqsUpTo(ExplicitActors, MaxList), triplet : ExplicitCandidates]

InitExplicit ==
    /\ actors_by_category = DefaultCatalog
    /\ all_actors = None
    /\ actor_to_category = None
    /\ arg \in ExplicitArgs
    /\ validator = TripletValidator(Some(arg.actors), DEFAULT_FUZZY_MATCH_THRESHOLD,
                                    TRUE, TRUE)
    /\ shared = FALSE
    /\ op = "init"
    /\ arg_after = None
    /\ ret = None
    /\ normalizers = NoNormalizers
    /\ loads = NoLoads

(* validate(triplet) on the validator constructed from arg.actors *)
ValidateExplicit ==
    /\ op = "init"
    /\ \E m \in {MatcherView} : \E o \in {validate(validator, m, arg.triplet)} :
       LET built == o.used_matcher /\ validator.matcher = None
       IN  /\ op' = "validate"
           /\ ret' = o.result
           /\ arg_after' = o.triplet
           /\ validator' = IF built THEN [validator EXCEPT !.matcher = Some(m)]
                           ELSE validator
           /\ all_actors' = IF built THEN Some(AllActorsView) ELSE all_actors
           /\ shared' = IF built THEN TRUE ELSE shared
    /\ UNCHANGED <<arg, actors_by_category, actor_to_category, normalizers, loads>>

NextExplicit == ValidateExplicit

SpecExplicit == InitExplicit /\ [][NextExplicit]_vars

----------------------------------------------------------------------------
(* The validation rules of the specification, stated on the candidate      *)
(* alone, for the properties below.                                        *)

Required == {"role", "practice", "counterrole"}

Rule1Fails(t) == \E k \in Required : k \notin DOMAIN t \/ t[k] = <<>>

Rule2Fails(t) == Len(Strip(t.role)) < 2

Rule3ShortFails(t) == Len(Strip(t.counterrole)) < 3

Rule3LongFails(t) == Len(Strip(t.counterrole)) > 100

IsGenericTerm(c) == Lower(Strip(c)) \in GENERIC_COUNTERROLES

Rule4Fails(t) == validator.filter_generic /\ IsGenericTerm(t.counterrole)

Rule5Fails(t) == Lower(Strip(t.practice)) \in VAGUE_PRACTICES

(* a matcher over the catalog as it is now *)
CatalogMatcher == FuzzyMatcher(Flatten(actors_by_category), validator.fuzzy_threshold)

Rule6Fails(t) ==
    /\ validator.require_actor_match
    /\ match(CatalogMatcher, Strip(t.role), None) = None

FirstFailing(t) ==
    IF Rule1Fails(t) THEN "Missing required fields"
    ELSE IF Rule2Fails(t) THEN "Role too short"
    ELSE IF Rule3ShortFails(t) THEN "Counterrole too short"
    ELSE IF Rule3LongFails(t) THEN "Counterrole too long"
    ELSE IF Rule4Fails(t) THEN "Generic counterrole"
    ELSE IF Rule5Fails(t) THEN "Vague practice verb"
    ELSE IF Rule6Fails(t) THEN "Role not in actor catalog"
    ELSE "valid"

PassesRules1to3(t) ==
    ~Rule1Fails(t) /\ ~Rule2Fails(t) /\ ~Rule3ShortFails(t) /\ ~Rule3LongFails(t)

PassesRules1to5(t) == PassesRules1to3(t) /\ ~Rule4Fails(t) /\ ~Rule5Fails(t)

Validated == op = "validate"

----------------------------------------------------------------------------
(* C1: validate is fail-fast in rule-list order: the reason reported is    *)
(* that of the first failing rule among presence, role length, counterrole *)
(* too short, counterrole too long, generic counterrole (if enabled),      *)
(* vague practice, actor-catalog match (if enabled); a candidate failing   *)
(* no rule is accepted.                                                    *)
C1_FailFastOrder ==
    Validated =>
        /\ ret.reason = FirstFailing(arg)
        /\ ret.is_valid <=> (FirstFailing(arg) = "valid")

(* a candidate failing rules 4, 5 and 6 at once is reported with rule 4 only *)
C1_Witness ==
    /\ Validated
    /\ PassesRules1to3(arg)
    /\ Rule4Fails(arg) /\ Rule5Fails(arg) /\ Rule6Fails(arg)
    /\ ret.reason = "Generic counterrole"

(* C4: a candidate whose role, practice or counterrole is absent or the    *)
(* empty string is rejected with "Missing required fields", whatever the   *)
(* other fields hold.                                                      *)
C4_MissingFieldRejected ==
    (Validated /\ Rule1Fails(arg)) => ret = Rejected("Missing required fields")

(* the practice is the empty string while role and counterrole are good *)
C4_Witness ==
    /\ Validated
    /\ "practice" \in DOMAIN arg /\ arg.practice = <<>>
    /\ "role" \in DOMAIN arg /\ Len(Strip(arg.role)) >= 2
    /\ "counterrole" \in DOMAIN arg /\ Len(Strip(arg.counterrole)) = 3
    /\ ret = Rejected("Missing required fields")

(* C5: presence is checked after trimming: a candidate with a whitespace-  *)
(* only role, practice or counterrole is rejected with "Missing required   *)
(* fields", and no accepted triplet has an empty role, practice or         *)
(* counterrole.                                                            *)
C5_PresenceAfterTrim ==
    Validated =>
        /\ (\E k \in Required : Strip(Get(arg, k, <<>>)) = <<>>)
               => ret.reason = "Missing required fields"
        /\ ret.is_valid =>
               /\ ret.triplet[1].role # <<>>
               /\ ret.triplet[1].practice # <<>>
               /\ ret.triplet[1].counterrole # <<>>

(* C6: for a candidate passing rules 1-5, with require_actor_match the     *)
(* result is "Role not in actor catalog" iff match(trimmed role) is None,  *)
(* otherwise the accepted role is exactly the matched actor; without       *)
(* require_actor_match the accepted role is the trimmed input role and no  *)
(* matcher is built.                                                       *)
C6_ActorMatchRule ==
    (Validated /\ PassesRules1to5(arg)) =>
        IF validator.require_actor_match
        THEN LET mr == match(MatcherView, Strip(arg.role), Some(validator.fuzzy_threshold))
             IN  /\ (ret.reason = "Role not in actor catalog") <=> (mr = None)
                 /\ ret.is_valid <=> (mr # None)
                 /\ mr # None => ret.triplet[1].role = mr[1]
        ELSE /\ ret.is_valid
             /\ ret.triplet[1].role = Strip(arg.role)
             /\ validator.matcher = None

(* a role that is not an actor name is accepted and rewritten to one *)
C6_Witness ==
    /\ Validated
    /\ validator.require_actor_match
    /\ ret.is_valid
    /\ ret.triplet[1].role # Strip(arg.role)
    /\ InList(ret.triplet[1].role, Flatten(actors_by_category))

(* C7: for a candidate passing rules 1-2 the trimmed counterrole passes    *)
(* the length rule iff its length is in 3..100: below 3 is "Counterrole    *)
(* too short", above 100 is "Counterrole too long".                        *)
C7_CounterroleLength ==
    (Validated /\ ~Rule1Fails(arg) /\ ~Rule2Fails(arg)) =>
        LET n == Len(Strip(arg.counterrole))
        IN  /\ (ret.reason = "Counterrole too short") <=> (n < 3)
            /\ (ret.reason = "Counterrole too long") <=> (n > 100)
            /\ n \in {3, 100} => ret.reason \notin {"Counterrole too short", "Counterrole too long"}
            /\ n = 2 => ret.reason = "Counterrole too short"
            /\ n = 101 => ret.reason = "Counterrole too long"

(* a counterrole of 102 raw and 100 trimmed characters is accepted *)
C7_Witness ==
    /\ Validated
    /\ ret.is_valid
    /\ Len(arg.counterrole) = 102
    /\ Len(ret.triplet[1].counterrole) = 100

(* C8 as claimed: with the filter on, every candidate whose trimmed,       *)
(* lower-cased counterrole is a generic term is rejected with "Generic     *)
(* counterrole".                                                           *)
C8_GenericAlwaysReported ==
    (Validated /\ validator.filter_generic /\ IsGenericTerm(Get(arg, "counterrole", <<>>)))
        => ret.reason = "Generic counterrole"

(* C8 amended: with the filter on, every candidate that passes rules 1-3   *)
(* and whose trimmed, lower-cased counterrole is a generic term is         *)
(* rejected with "Generic counterrole", whatever its role and practice; no *)
(* accepted triplet has a generic counterrole.  With the filter off no     *)
(* result is "Generic counterrole" and a generic counterrole that passes   *)
(* the other rules is accepted.                                            *)
C8_GenericFilter ==
    Validated =>
        /\ (validator.filter_generic /\ PassesRules1to3(arg) /\ IsGenericTerm(arg.counterrole))
               => ret.reason = "Generic counterrole"
        /\ (validator.filter_generic /\ ret.is_valid)
               => ~IsGenericTerm(ret.triplet[1].counterrole)
        /\ ~validator.filter_generic => ret.reason # "Generic counterrole"
        /\ (~validator.filter_generic /\ PassesRules1to3(arg) /\ IsGenericTerm(arg.counterrole)
              /\ ~Rule5Fails(arg) /\ ~Rule6Fails(arg)) => ret.is_valid

(* a generic term written with a capital and padding is caught, with a good
   role and practice *)
C8_Witness ==
    /\ Validated
    /\ validator.filter_generic
    /\ PassesRules1to3(arg)
    /\ arg.counterrole \notin GENERIC_COUNTERROLES
    /\ IsGenericTerm(arg.counterrole)
    /\ ~Rule5Fails(arg) /\ ~Rule6Fails(arg)
    /\ ret.reason = "Generic counterrole"

(* C2: with require_actor_match, whatever add_actor / remove_actor calls   *)
(* came before, the role of a triplet accepted by validate is an actor     *)
(* that is in the catalog when validate returns.                           *)
C2_AcceptedRoleInCatalog ==
    (Validated /\ validator.require_actor_match /\ ret.is_valid)
        => InCatalog(actors_by_category, ret.triplet[1].role)

(* C3: every triplet an extraction run returns (extract and              *)
(* extract_streaming with normalize_verbs on, extract_triplets with its    *)
(* default validator) has a canonical verb as practice and a catalog actor *)
(* as role.                                                                *)
C3_ReturnedNormalizedAndValidated ==
    /\ (op \in {"extract", "extract_streaming"} /\ arg.normalize_verbs) =>
           \A i \in DOMAIN ret :
               /\ ret[i].practice \in CANONICAL_VERBS
               /\ InCatalog(actors_by_category, ret[i].role)
    /\ op = "extract_triplets" =>
           \A i \in DOMAIN ret.triplets :
               /\ ret.triplets[i].extracted.practice \in CANONICAL_VERBS
               /\ InCatalog(actors_by_category, ret.triplets[i].extracted.role)

(* C9: validate_batch on N candidates returns (valid, all_results) with  *)
(* N results, the i-th being the result of validating candidate i, with    *)
(* len(valid) + number of rejected = N, and valid being exactly the        *)
(* accepted triplets in input order.                                       *)
AcceptedIndices(results) == {i \in DOMAIN results : results[i].is_valid}

C9_BatchContract ==
    op = "validate_batch" =>
        LET valid == ret[1]
            all_results == ret[2]
            N == Len(arg)
            acc == AcceptedIndices(all_results)
        IN  /\ Len(all_results) = N
            /\ \A i \in 1..N :
                   all_results[i] = validate(validator, MatcherView, arg[i]).result
            /\ Len(valid) + Cardinality((1..N) \ acc) = N
            /\ \E f \in [1..Len(valid) -> 1..N] :
                   /\ \A j, k \in 1..Len(valid) : j < k => f[j] < f[k]
                   /\ {f[k] : k \in 1..Len(valid)} = acc
                   /\ \A k \in 1..Len(valid) : valid[k] = all_results[f[k]].triplet[1]

(* two different accepted triplets with a rejected candidate between them *)
C9_Witness ==
    /\ op = "validate_batch"
    /\ Len(arg) = 3
    /\ Len(ret[1]) = 2
    /\ ~ret[2][2].is_valid
    /\ ret[1][1] # ret[1][2]
    /\ ret[1][1] = ret[2][1].triplet[1]

(* C10 as claimed: for every actor a of the matcher's list, match(a)       *)
(* returns exactly a.                                                      *)
C10_EveryActorMatchesItself ==
    (op = "match" /\ InList(arg.name, validator.matcher[1].actors))
        => ret = Some(arg.name)

(* C10 amended: for every actor a of the list a FuzzyMatcher was built     *)
(* from that has at least 2 characters, no leading or trailing whitespace, *)
(* and is the last actor of the list with its lower-cased name, match(a)   *)
(* returns exactly a whatever the threshold, through the lowercase map and *)
(* before any fuzzy scoring.                                               *)
LastWithLowerName(actors, a) ==
    \E i \in DOMAIN actors :
        /\ actors[i] = a
        /\ \A j \in DOMAIN actors : (j > i /\ Lower(actors[j]) = Lower(a)) => actors[j] = a

C10_ExactMatchFirst ==
    LET m == validator.matcher[1]
        a == arg.name
    IN  (op = "match" /\ InList(a, m.actors) /\ Len(a) >= 2 /\ Strip(a) = a
           /\ LastWithLowerName(m.actors, a))
            => /\ ret = Some(a)
               /\ Lower(a) \in DOMAIN m.actor_lower_map
               /\ m.actor_lower_map[Lower(a)] = a

(* the actor is returned although an earlier actor of the list has the same
   fuzzy score of 100 and would win the fuzzy scoring *)
C10_Witness ==
    /\ op = "match"
    /\ arg.name = <<"B"," ","A">>
    /\ validator.matcher[1].actors = << <<"A"," ","B">>, <<"B"," ","A">> >>
    /\ extractOne(arg.name, validator.matcher[1].actors, 100) = Some(<<"A"," ","B">>)
    /\ ret = Some(arg.name)

(* The threshold a match call works with, and the fuzzy path's contract.   *)
EffectiveThreshold ==
    IF arg.threshold # None THEN arg.threshold[1]
    ELSE validator.matcher[1].threshold

(* ret is an actor of the list whose score is maximal and >= th if there   *)
(* is an actor scoring >= th, and none otherwise                           *)
BestOrNone(actors, name, th) ==
    IF \E i \in DOMAIN actors : ScoreGE(token_sort_ratio(name, actors[i]), th)
    THEN /\ ret # None
         /\ InList(ret[1], actors)
         /\ ScoreGE(token_sort_ratio(name, ret[1]), th)
         /\ \A j \in DOMAIN actors :
                ~ScoreGT(token_sort_ratio(name, actors[j]),
                         token_sort_ratio(name, ret[1]))
    ELSE ret = None

(* C11 as claimed: for a name of at least 2 characters that equals no      *)
(* actor when both are lower-cased, match returns an actor of maximal      *)
(* score if that score is >= the threshold in force, and none otherwise.   *)
C11_FuzzyBestOrNone ==
    LET m == validator.matcher[1]
    IN  (op = "match" /\ Len(arg.name) >= 2
           /\ \A i \in DOMAIN m.actors : Lower(m.actors[i]) # Lower(arg.name))
            => BestOrNone(m.actors, arg.name, EffectiveThreshold)

(* C11 amended: for a name of at least 2 characters whose lower-cased and  *)
(* trimmed form equals no lower-cased actor, match returns an actor of     *)
(* maximal score if that score is >= the threshold (equality accepted),    *)
(* and none otherwise; the threshold is the explicit argument when one is  *)
(* given, 0 included, else the matcher's default.                          *)
C11_FuzzyBestOrNoneAfterTrim ==
    LET m == validator.matcher[1]
    IN  (op = "match" /\ Len(arg.name) >= 2
           /\ \A i \in DOMAIN m.actors : Lower(m.actors[i]) # Strip(Lower(arg.name)))
            => /\ BestOrNone(m.actors, arg.name, EffectiveThreshold)
               /\ (arg.threshold = Some(0) /\ m.actors # <<>>) => ret # None

(* a score of exactly 100 is accepted under the explicit threshold 100,    *)
(* which overrides the default of 60                                       *)
C11_Witness ==
    /\ op = "match"
    /\ arg.name = <<"A"," ","B">>
    /\ arg.threshold = Some(100)
    /\ validator.matcher[1].threshold = 60
    /\ validator.matcher[1].actors = << <<"X","Q","Z">>, <<"B"," ","A">> >>
    /\ ret = Some(<<"B"," ","A">>)

(* C12: after any sequence of add_actor and remove_actor calls, a read     *)
(* never observes a stale cache: all_actors is the concatenation of the    *)
(* current category lists, contains(a) holds iff a is in some category     *)
(* list, get_category(a) is a category whose list contains a and none iff  *)
(* there is none, and search filters the current actors.                   *)
C12_NoStaleCatalogRead ==
    /\ op = "all_actors" => ret = Flatten(actors_by_category)
    /\ op = "contains" => (ret <=> InCatalog(actors_by_category, arg))
    /\ op = "get_category" =>
          IF InCatalog(actors_by_category, arg)
          THEN /\ ret # None
               /\ \E i \in DOMAIN actors_by_category :
                      /\ actors_by_category[i].category = ret[1]
                      /\ InList(arg, actors_by_category[i].actors)
          ELSE ret = None
    /\ op = "search" => ret = SearchIn(Flatten(actors_by_category), arg)
    /\ all_actors # None => all_actors[1] = Flatten(actors_by_category)
    /\ actor_to_category # None =>
          DOMAIN actor_to_category[1] =
              {a \in ActorUniverse \cup {MIT, EITFood} : InCatalog(actors_by_category, a)}

(* a read after the catalog changed under filled caches: KTH was added and *)
(* ETH removed, and get_category answers for the catalog as it is now      *)
C12_Witness ==
    /\ op = "get_category"
    /\ arg = KTH
    /\ ret = Some("Startups")
    /\ ~InCatalog(actors_by_category, ETH)
    /\ all_actors # None

(* C13: normalize returns (v, s) with s the maximum similarity between the *)
(* phrase and any canonical verb; if s is below the threshold in force v   *)
(* is none, otherwise v is a canonical verb attaining s; the score is      *)
(* reported in both cases.                                                 *)
C13_NormalizeBestOrNone ==
    op = "normalize" =>
        LET verbs == SortedList(arg.canonical_verbs)
            th == IF arg.threshold # None THEN arg.threshold[1]
                  ELSE DEFAULT_SIMILARITY_THRESHOLD
            s == ret[2]
        IN  /\ \E i \in DOMAIN arg.scores : arg.scores[i] = s
            /\ \A i \in DOMAIN arg.scores : arg.scores[i] <= s
            /\ IF s < th THEN ret[1] = None
               ELSE /\ ret[1] # None
                    /\ ret[1][1] \in arg.canonical_verbs
                    /\ \E i \in DOMAIN verbs : verbs[i] = ret[1][1] /\ arg.scores[i] = s

(* a best score equal to the default threshold is accepted, and the verb   *)
(* returned is the one at the position of that score in the sorted list    *)
C13_Witness ==
    /\ op = "normalize"
    /\ arg.threshold = None
    /\ arg.canonical_verbs = {VerbPool[1], VerbPool[2]}
    /\ arg.scores = <<10, 30>>
    /\ ret = <<Some(VerbPool[1]), 30>>

(* C14: for every triplet that survives verb normalization,                *)
(* practice_original is the pre-normalization practice when normalization  *)
(* changed the verb, and is empty or absent when the input practice was    *)
(* already the canonical verb it normalized to.                            *)
ParsedCandidates(chunks) ==
    UNION { {chunks[i].parsed[k] : k \in DOMAIN chunks[i].parsed} :
            i \in {j \in DOMAIN chunks : ~chunks[j].raises} }

C14_PracticeOriginalRoundTrip ==
    (op \in {"extract", "extract_streaming"} /\ arg.normalize_verbs) =>
        \A i \in DOMAIN ret :
            \E c \in ParsedCandidates(arg.chunks) :
                /\ c.role = ret[i].role
                /\ IF c.practice # ret[i].practice
                   THEN Get(ret[i], "practice_original", None) = Some(c.practice)
                   ELSE Get(ret[i], "practice_original", None) \in {None, Some(<<>>)}

(* C15: with method "word", overlap 0 and chunk size s >= 1, a text of n   *)
(* whitespace-separated words yields exactly ceil(n/s) chunks, every chunk *)
(* but the last has exactly s words, the last has n - (ceil(n/s)-1)*s, and *)
(* the words of the chunks concatenated in order are the input words.      *)
RECURSIVE ConcatWords(_)
ConcatWords(chunks) ==
    IF chunks = <<>> THEN <<>>
    ELSE Split(Head(chunks)) \o ConcatWords(Tail(chunks))

C15_WordChunks ==
    (op = "chunk" /\ arg.method = "word" /\ arg.overlap = 0) =>
        LET n == Len(Split(arg.text))
            sz == arg.chunk_size
            c == (n + sz - 1) \div sz
        IN  /\ ~ret.raised
            /\ Len(ret.chunks) = c
            /\ \A k \in 1..(c - 1) : Len(Split(ret.chunks[k])) = sz
            /\ c > 0 => Len(Split(ret.chunks[c])) = n - (c - 1) * sz
            /\ ConcatWords(ret.chunks) = Split(arg.text)

(* five words at chunk size 2 give chunks of 2, 2 and 1 words (the shape   *)
(* of 2000 words at 900)                                                   *)
C15_Witness ==
    /\ op = "chunk"
    /\ arg.method = "word"
    /\ arg.overlap = 0
    /\ arg.chunk_size = 2
    /\ arg.text = <<"a"," ","b"," ","b"," ","a"," ","b">>
    /\ ret = Returned(<< <<"a"," ","b">>, <<"b"," ","a">>, <<"b">> >>)

(* C16: with method "sentence", for every text, chunk size and overlap,    *)
(* the word count of each returned chunk exceeds chunk_size by at most the *)
(* word count of one sentence of the input.                                *)
MaxSentenceWords(text) ==
    LET sentences == SplitSentences(text)
    IN  CHOOSE w \in {Len(Split(sentences[i])) : i \in DOMAIN sentences} :
            \A i \in DOMAIN sentences : Len(Split(sentences[i])) <= w

C16_SentenceChunkSize ==
    (op = "chunk" /\ arg.method = "sentence") =>
        /\ ~ret.raised
        /\ \A k \in DOMAIN ret.chunks :
               Len(Split(ret.chunks[k])) <= arg.chunk_size + MaxSentenceWords(arg.text)

(* C17: in batch extraction with a ceiling max_triplets supplied, for      *)
(* every non-negative value, the number of triplets returned never exceeds *)
(* max_triplets, and once the accumulated count has reached the ceiling no *)
(* further chunk is sent to generation.  arg_after lists the chunks sent   *)
(* to generation with the count accumulated before each.                   *)
C17_CeilingRespected ==
    (op = "extract_triplets" /\ arg.max_triplets # None) =>
        /\ ret.total_triplets <= arg.max_triplets[1]
        /\ Len(ret.triplets) <= arg.max_triplets[1]
        /\ \A k \in DOMAIN arg_after : arg_after[k].before < arg.max_triplets[1]

(* C18: in batch extraction a chunk whose processing raises contributes no *)
(* triplets and does not end the call: every later chunk is still          *)
(* processed and the result is the in-order concatenation of the triplets  *)
(* of exactly the chunks that did not raise (empty if all raise).  Stated  *)
(* for extract, and for extract_triplets called without a ceiling.         *)
RECURSIVE Flat(_)
Flat(lists) == IF lists = <<>> THEN <<>> ELSE Head(lists) \o Flat(Tail(lists))

C18_FailingChunkIsolated ==
    /\ op = "extract" =>
          ret = Flat([i \in DOMAIN arg.chunks |->
                         IF arg.chunks[i].raises THEN <<>>
                         ELSE extract_from_chunk(arg, arg.chunks[i])])
    /\ (op = "extract_triplets" /\ arg.max_triplets = None) =>
          LET per == Flat([i \in DOMAIN arg.chunks |->
                              IF arg.chunks[i].raises THEN <<>>
                              ELSE validate_triples(validator, MatcherView,
                                                    arg.chunks[i].parsed,
                                                    arg.chunks[i].confidence).validated])
          IN  /\ ret.status = "success"
              /\ [k \in DOMAIN arg_after |-> arg_after[k].chunk]
                     = [k \in DOMAIN arg.chunks |-> k]
              /\ ret.total_triplets = Len(per)
              /\ \A k \in DOMAIN per :
                     /\ ret.triplets[k].extracted.role = per[k].role
                     /\ ret.triplets[k].extracted.practice = per[k].practice

(* the first chunk raises and the triplets of the second are returned *)
C18_Witness ==
    /\ op = "extract"
    /\ Len(arg.chunks) = 2
    /\ arg.chunks[1].raises
    /\ ~arg.chunks[2].raises
    /\ arg.enrich_with_ner
    /\ Len(ret) = 1
    /\ ret[1].role = MIT

(* C19: extract_streaming yields a finite sequence in which every triplet  *)
(* carries the index of the chunk it was produced from, chunk indices are  *)
(* non-decreasing along the sequence, and all triplets of chunk i come     *)
(* before any triplet of chunk i+1.                                        *)
RECURSIVE TaggedWith(_, _)
TaggedWith(seq, c) ==
    IF seq = <<>> THEN <<>>
    ELSE IF Head(seq).chunk_id = Some(c)
         THEN <<Head(seq)>> \o TaggedWith(Tail(seq), c)
         ELSE TaggedWith(Tail(seq), c)

C19_StreamingTaggedInOrder ==
    op = "extract_streaming" =>
        /\ \A k \in DOMAIN ret :
               /\ "chunk_id" \in DOMAIN ret[k]
               /\ ret[k].chunk_id # None
               /\ ret[k].chunk_id[1] \in DOMAIN arg.chunks
               /\ ~arg.chunks[ret[k].chunk_id[1]].raises
        /\ \A k \in DOMAIN ret : \A l \in DOMAIN ret :
               k < l => ret[k].chunk_id[1] <= ret[l].chunk_id[1]
        /\ \A c \in DOMAIN arg.chunks :
               ~arg.chunks[c].raises =>
                   LET from_c == extract_from_chunk(arg, arg.chunks[c])
                   IN  TaggedWith(ret, c) =
                           [k \in DOMAIN from_c |-> Put(from_c[k], "chunk_id", Some(c))]

(* two chunks, each yielding one triplet: tags 1 then 2 *)
C19_Witness ==
    /\ op = "extract_streaming"
    /\ Len(arg.chunks) = 2
    /\ Len(ret) = 2
    /\ ret[1].chunk_id = Some(1)
    /\ ret[2].chunk_id = Some(2)

(* C20: for every generated text, parsing never raises and returns a list  *)
(* of candidates: the items of a parseable JSON array that carry role,     *)
(* practice and counterrole when such an array is present, otherwise the   *)
(* matches of the labeled-field pattern, and the empty list when the text  *)
(* has neither; an array whose elements are not objects yields zero        *)
(* candidates, not an error.                                               *)
CarryingItems(items) ==
    {i \in DOMAIN items :
        /\ items[i].kind = "object"
        /\ \A k \in DOMAIN RequiredKeys : RequiredKeys[k] \in DOMAIN items[i].value}

C20_ParsingNeverRaises ==
    op = "parse" =>
        /\ ~ret.raised
        /\ IF arg.text.span /\ arg.text.decodes
           THEN Len(ret.candidates) = Cardinality(CarryingItems(arg.text.items))
           ELSE Len(ret.candidates) = Len(arg.text.blocks)

(* C21: validate returns a ValidationResult, accepted or rejected with one *)
(* of the fixed reasons, for every candidate record and never raises,      *)
(* whatever the presence, type or value of the optional fields (context    *)
(* null or absent, chunk_id, practice_score, model_confidence, ner).       *)
FixedReasons ==
    {"Missing required fields", "Role too short", "Counterrole too short",
     "Counterrole too long", "Generic counterrole", "Vague practice verb",
     "Role not in actor catalog"}

C21_ValidateNeverRaises ==
    op = "validate" =>
        /\ ~ret.raised
        /\ ret.result.is_valid \/ ret.result.reason \in FixedReasons

(* C22: on acceptance the emitted triplet's context, chunk_id,             *)
(* practice_original, practice_score, model_confidence and ner are equal   *)
(* to the candidate's values (absent ones stay absent or empty), its       *)
(* counterrole and practice are the trimmed input values, and its role is  *)
(* the trimmed input or the catalog actor it was rewritten to.             *)
Accepted == op = "validate" /\ ~ret.raised /\ ret.result.is_valid

Emitted == ret.result.triplet[1]

(* the candidate's value of an optional field, an absent one being empty *)
Given(k) ==
    IF k \in DOMAIN arg.optional THEN arg.optional[k]
    ELSE IF k = "context" THEN PyStr(<<>>)
    ELSE IF k = "ner" THEN PyList(<<>>)
    ELSE PyNone

IsNum(v) == PyType(v) \in {"int", "float"}

Hundredths(v) == IF PyType(v) = "int" THEN 100 * v[2] ELSE v[2]

(* Python's ==: equal values, an int and a float of the same magnitude *)
PyEq(a, b) == a = b \/ (IsNum(a) /\ IsNum(b) /\ Hundredths(a) = Hundredths(b))

RequiredPassThrough ==
    /\ Emitted.counterrole = PyStr(Strip(arg.triplet.counterrole))
    /\ Emitted.practice = PyStr(Strip(arg.triplet.practice))
    /\ \/ Emitted.role = PyStr(Strip(arg.triplet.role))
       \/ InCatalog(actors_by_category, Emitted.role[2])

C22_PassThrough ==
    Accepted =>
        /\ \A k \in OptionalFields : PyEq(Emitted[k], Given(k))
        /\ RequiredPassThrough

NumberFields == {"chunk_id", "practice_score", "model_confidence"}

(* C22 as the code has it: a numeral string given for a number field is    *)
(* emitted as the number it denotes, every other value is emitted equal.   *)
C22_PassThroughConverted ==
    Accepted =>
        /\ \A k \in OptionalFields :
               IF k \in NumberFields /\ PyType(Given(k)) = "str"
               THEN /\ IsNum(Emitted[k])
                    /\ Hundredths(Emitted[k]) = 100 * NumeralValue(Given(k)[2])
               ELSE PyEq(Emitted[k], Given(k))
        /\ RequiredPassThrough

(* a candidate with padded fields and every optional field given is        *)
(* accepted with the role rewritten to the catalog name                    *)
C22_Witness ==
    /\ Accepted
    /\ arg.triplet.role = <<" ","M","I","T">>
    /\ Emitted.role = PyStr(MIT)
    /\ Emitted.practice = PyStr(Fund)
    /\ DOMAIN arg.optional = OptionalFields
    /\ Emitted.chunk_id = PyInt(1)
    /\ Emitted.context = PyStr(Ctx)
    /\ Emitted.ner = PyList(<<Entity>>)
    /\ Emitted.practice_score = PyFloat(85)

C24_LowerMapInStep ==
    LET m == validator.matcher[1]
    IN  /\ \A i \in DOMAIN m.actors : Lower(m.actors[i]) \in DOMAIN m.actor_lower_map
        /\ \A k \in DOMAIN m.actor_lower_map :
               /\ InList(m.actor_lower_map[k], m.actors)
               /\ \E i \in DOMAIN m.actors : Lower(m.actors[i]) = k

(* C25: over any sequence of normalization calls in one process, through   *)
(* normalize_verb and through TripleExtractor instances, the embedding     *)
(* model is loaded and the canonical verb embeddings are computed at most  *)
(* once.                                                                   *)
C25_LoadedAtMostOnce ==
    /\ loads.embedder <= 1
    /\ loads.canonical_embeddings <= 1

(* C26: ActorCatalog.remove_actor(a) returns True iff a was in some        *)
(* category list before the call; after a call that returns True,          *)
(* contains(a) is False and a is in no category list and not in            *)
(* all_actors; a call that returns False leaves the catalog unchanged.     *)
C26_RemoveActorContract ==
    [][ op' = "remove_actor" =>
            /\ ret' = InCatalog(actors_by_category, arg')
            /\ ret' => /\ arg' \notin DOMAIN ActorToCategoryView'
                       /\ ~InCatalog(actors_by_category', arg')
                       /\ ~InList(arg', AllActorsView')
            /\ ~ret' => UNCHANGED <<actors_by_category, all_actors, actor_to_category>>
      ]_vars

(* C27: in every state reachable by ActorCatalog add_actor/remove_actor    *)
(* and by add_actor/remove_actor on a FuzzyMatcher built from the          *)
(* catalog's all_actors list, the catalog's own views agree: an actor is   *)
(* in all_actors iff contains(actor) holds, and len(catalog) equals the    *)
(* total number of entries in the category lists.                          *)
C27_CatalogViewsAgree ==
    /\ \A a \in ActorUniverse \cup {MIT, EITFood} :
           InList(a, AllActorsView) <=> a \in DOMAIN ActorToCategoryView
    /\ Len(AllActorsView) = Len(Flatten(actors_by_category))

(* C28: a TripletValidator constructed with an explicit actors list and    *)
(* require_actor_match enabled accepts only roles that match an actor of   *)
(* that list; constructed with an empty list it rejects every candidate    *)
(* that reaches rule 6 with "Role not in actor catalog" and never consults *)
(* the default catalog.                                                    *)
C28_ExplicitListOnly ==
    op = "validate" =>
        /\ ret.is_valid => InList(ret.triplet[1].role, arg.actors)
        /\ arg.actors = <<>> =>
               /\ ~ret.is_valid
               /\ all_actors = None
               /\ ~IsVaguePractice(arg.triplet.practice) =>
                      ret.reason = "Role not in actor catalog"

(* C29: for the same text, settings and deterministic per-chunk            *)
(* generation, the sequence yielded by extract_streaming with the chunk_id *)
(* tag ignored equals the list returned by extract, element for element    *)
(* and in the same order, including when some chunks raise.                *)
Untagged(triplets) ==
    [k \in DOMAIN triplets |->
        [f \in (DOMAIN triplets[k]) \ {"chunk_id"} |-> triplets[k][f]]]

C29_StreamingEqualsExtract ==
    op = "extract_streaming" => Untagged(ret) = extract(arg, arg.chunks)

(* the first chunk raises, the second yields one normalized triplet *)
C29_Witness ==
    /\ op = "extract_streaming"
    /\ Len(arg.chunks) = 2
    /\ arg.chunks[1].raises
    /\ arg.normalize_verbs
    /\ Len(ret) = 1
    /\ ret[1].chunk_id = Some(2)
    /\ ret[1].practice_original = Some(PartnersWith)

(* C30: for every chunk_size >= 1 and every overlap >= 0, overlap >=       *)
(* chunk_size included, TextChunker.chunk with method "word" or "char"     *)
(* terminates without raising, every word (respectively non-whitespace     *)
(* character) of the input is in at least one returned chunk, and the      *)
(* chunks are in input order.                                              *)

(* the units the method cuts the text into, and those of a chunk *)
Units(method, s) == IF method = "word" THEN Split(s) ELSE s

(* the chunk is the part of the input that starts at unit s *)
StartsAt(method, text, chunk_text, s) ==
    LET all == Units(method, text)
        part == Units(method, chunk_text)
    IN  /\ s + Len(part) - 1 <= Len(all)
        /\ SubSeq(all, s, s + Len(part) - 1) = part

C30_WordCharCoverage ==
    (op = "chunk" /\ arg.method \in {"word", "char"}) =>
        /\ ~ret.raised
        /\ LET all == Units(arg.method, arg.text)
           IN  /\ \A i \in DOMAIN all :
                      all[i] \notin Whitespace =>
                          \E k \in DOMAIN ret.chunks :
                              InList(all[i], Units(arg.method, ret.chunks[k]))
               /\ \A k \in DOMAIN ret.chunks : \A l \in DOMAIN ret.chunks :
                      k < l =>
                          \E s1 \in DOMAIN all : \E s2 \in DOMAIN all :
                              /\ s1 < s2
                              /\ StartsAt(arg.method, arg.text, ret.chunks[k], s1)
                              /\ StartsAt(arg.method, arg.text, ret.chunks[l], s2)

====
